---- MODULE Spec2Model ----
(***************************************************************************)
(* cpy: one cpy() operation (index.js, glob-pattern.js): matching of the   *)
(* sources, selection of the entries, destination mapping, the bounded     *)
(* concurrency copy phase, progress events and the abort signal.           *)
(*                                                                         *)
(* A path is a record [abs, segs]: abs tells whether the string starts     *)
(* with "/", segs are its segments.  The empty relative path stands for    *)
(* "." (and for the empty string path.relative returns).                   *)
(***************************************************************************)
EXTENDS Naturals, Integers, Sequences, FiniteSets, TLC

\* ------------------------------------------------------------------ bounds

\* Longest source list of an operation drawn by Init.
MaxSources == 2

\* Largest value of the concurrency option drawn by Init.
MaxConcurrency == 2

\* Size in bytes of the large files on disk (the others hold one byte).
FileSize == 2

\* Most progress reports handled before a copy primitive sends only its last one.
MaxProgressReports == 2

\* ------------------------------------------------------------------ node:path (POSIX)

P(abs, segs) == [abs |-> abs, segs |-> segs]

Abs(segs) == P(TRUE, segs)

Rel(segs) == P(FALSE, segs)

\* The value `undefined` where the code returns or stores it in place of a path.
Undef == P(FALSE, <<"<undefined>">>)

\* The segments of a string that start with the two characters "..".
DotDotPrefixed == {"..", "..d"}

\* The segments of a string that start with the character ".".
DotPrefixed == {"..", "..d"}

RECURSIVE NormSegs(_, _, _)
NormSegs(abs, todo, acc) ==
    IF todo = <<>> THEN acc
    ELSE LET s == Head(todo) IN
         IF s = ".."
         THEN IF acc # <<>> /\ acc[Len(acc)] # ".."
              THEN NormSegs(abs, Tail(todo), SubSeq(acc, 1, Len(acc) - 1))
              ELSE IF abs THEN NormSegs(abs, Tail(todo), acc)
                   ELSE NormSegs(abs, Tail(todo), Append(acc, s))
         ELSE NormSegs(abs, Tail(todo), Append(acc, s))

\* path.normalize
Normalize(p) == P(p.abs, NormSegs(p.abs, p.segs, <<>>))

\* path.join(a, b) with b a relative string
Join(a, b) == Normalize(P(a.abs, a.segs \o b.segs))

\* path.resolve(base, p) with base absolute
Resolve(base, p) == IF p.abs THEN Normalize(p) ELSE Normalize(P(TRUE, base.segs \o p.segs))

\* path.basename
Basename(p) == IF p.segs = <<>> THEN "" ELSE p.segs[Len(p.segs)]

\* path.dirname
Dirname(p) == IF p.segs = <<>> THEN p ELSE P(p.abs, SubSeq(p.segs, 1, Len(p.segs) - 1))

RECURSIVE CommonLen(_, _)
CommonLen(a, b) ==
    IF a = <<>> \/ b = <<>> \/ Head(a) # Head(b) THEN 0
    ELSE 1 + CommonLen(Tail(a), Tail(b))

\* path.relative(from, to), both absolute and normalized
Relative(from, to) ==
    LET k == CommonLen(from.segs, to.segs) IN
    Rel([i \in 1..(Len(from.segs) - k) |-> ".."] \o SubSeq(to.segs, k + 1, Len(to.segs)))

\* relativePath.startsWith('..')
StartsWithDotDot(p) == p.segs # <<>> /\ Head(p.segs) \in DotDotPrefixed

IsPrefix(a, b) ==
    /\ a.abs = b.abs
    /\ Len(a.segs) <= Len(b.segs)
    /\ SubSeq(b.segs, 1, Len(a.segs)) = a.segs

IsProperPrefix(a, b) == IsPrefix(a, b) /\ Len(a.segs) < Len(b.segs)

\* ------------------------------------------------------------------ the file system of the runs

\* Directory symlinks: link path -> real directory.
SymlinkPaths == {Abs(<<"l">>), Abs(<<"r", "s", "k">>)}

SymlinkTargetOf(link) == Abs(<<"o">>)

\* Every path that names a regular file (through symlinked directories too),
\* in the order the glob engine reports matches.
Files ==
    << Abs(<<"r", "a.txt">>),
       Abs(<<"r", "out", "a.txt">>),
       Abs(<<"r", "q", "a.txt">>),
       Abs(<<"r", "s", "a.txt">>),
       Abs(<<"r", "s", "..d", "c.txt">>),
       Abs(<<"r", "s", "k", "a.txt">>),
       Abs(<<"r", "s", "k", "u", "b.txt">>),
       Abs(<<"r", "s", "t", "b.txt">>),
       Abs(<<"o", "a.txt">>),
       Abs(<<"o", "u", "b.txt">>),
       Abs(<<"l", "a.txt">>),
       Abs(<<"l", "u", "b.txt">>) >>

FileSet == {Files[i] : i \in 1..Len(Files)}

\* fs.realpathSync: a path below a directory symlink is the same file as the
\* path below the link's target.
RealPath(p) ==
    IF \E l \in SymlinkPaths : IsPrefix(l, p)
    THEN LET l == CHOOSE l \in SymlinkPaths : IsPrefix(l, p) IN
         Abs(SymlinkTargetOf(l).segs \o SubSeq(p.segs, Len(l.segs) + 1, Len(p.segs)))
    ELSE p

\* A directory that holds no file.
EmptyDirectories == {Abs(<<"r", "s", "e">>)}

\* A directory the glob engine fails to read.
UnreadableDirectories == {Abs(<<"x">>)}

\* stats.isDirectory() of fs.statSync (follows symlinks)
IsDirectoryPath(p) ==
    \/ \E f \in FileSet : IsProperPrefix(p, f)
    \/ p \in EmptyDirectories \cup UnreadableDirectories

\* stats.size: the files named b.txt are the large ones.
SizeOf(p) == IF Basename(p) = "b.txt" THEN FileSize ELSE 1

\* stats.mtimeMs: /r/a.txt was modified after every other file.
Mtime(p) == IF RealPath(p) = Abs(<<"r", "a.txt">>) THEN 2 ELSE 1

\* fs.existsSync
ExistsPath(p) == p \in FileSet \/ IsDirectoryPath(p)

\* lstat.isSymbolicLink()
IsSymbolicLink(p) == p \in SymlinkPaths

\* ------------------------------------------------------------------ patterns

\* A source string: the segments before the first wildcard segment, the
\* wildcard tail ("" for a literal path, "*" or "**"), and whether the string
\* begins with "!".
Pat(abs, segs, tail) == [abs |-> abs, segs |-> segs, tail |-> tail, negated |-> FALSE]

\* "!" followed by the pattern string
Negation(pat) == [pat EXCEPT !.negated = TRUE]

\* The pattern string as a path (its last segment is the wildcard, if any).
PatPath(pat) == P(pat.abs, IF pat.tail = "" THEN pat.segs ELSE Append(pat.segs, pat.tail))

\* globby: isDynamicPattern (a wildcard, or a leading "!")
isDynamicPattern(pat) == pat.tail # "" \/ pat.negated

\* new GlobPattern(pattern, destination, options)
GlobPattern(pattern, cwd) ==
    LET resolved == Resolve(cwd, PatPath(pattern))
        plain == [originalPath |-> pattern,
                  path |-> [Pat(pattern.abs, Normalize(P(pattern.abs, pattern.segs)).segs,
                                pattern.tail) EXCEPT !.negated = pattern.negated],
                  isDirectory |-> FALSE,
                  symlinkTarget |-> Undef,
                  symlinkRelative |-> Undef]
    IN
    IF isDynamicPattern(pattern) THEN plain
    ELSE IF ~ExistsPath(resolved) THEN plain
    ELSE IF ~IsDirectoryPath(resolved) THEN plain
    ELSE IF IsSymbolicLink(resolved)
    THEN LET realPath == RealPath(resolved)
             relative == Relative(cwd, resolved)
             realRelative == Relative(cwd, realPath)
         IN [originalPath |-> pattern,
             path |-> Pat(FALSE, Normalize(realRelative).segs, "**"),
             isDirectory |-> TRUE,
             symlinkTarget |-> realPath,
             symlinkRelative |-> IF StartsWithDotDot(relative) THEN Undef ELSE relative]
    ELSE [plain EXCEPT !.path = Pat(pattern.abs, Normalize(P(pattern.abs, pattern.segs)).segs, "**"),
                       !.isDirectory = TRUE]

\* GlobPattern.normalizedPath: the glob parent
normalizedPath(gp, cwd) ==
    LET pre == IF gp.path.tail # "" THEN gp.path.segs
               ELSE SubSeq(gp.path.segs, 1, Len(gp.path.segs) - 1)
    IN IF pre = <<>> THEN cwd
       ELSE IF gp.path.abs THEN Normalize(Abs(pre))
       ELSE Normalize(Join(cwd, Rel(pre)))

\* Variant: the magic test on the pattern as written, whatever flat is.
hasMagicAsWritten(gp, flat) == isDynamicPattern(gp.originalPath)

\* GlobPattern.hasMagic()
hasMagic(gp, flat) == isDynamicPattern(IF flat THEN gp.path ELSE gp.originalPath)

\* A wildcard does not match a segment that starts with "." unless dot is set.
NoHiddenSegment(segs, dot) == dot \/ \A i \in 1..Len(segs) : segs[i] \notin DotPrefixed

\* globbySync(this.path, {cwd, absolute: true, onlyFiles: true}) for the
\* pattern shapes of the runs.
GlobMatches(f, base, tail, dot) ==
    IF tail = "" THEN f = base
    ELSE /\ IsProperPrefix(base, f)
         /\ tail = "*" => Len(f.segs) = Len(base.segs) + 1
         /\ NoHiddenSegment(SubSeq(f.segs, Len(base.segs) + 1, Len(f.segs)), dot)

\* Variant: the glob engine is not given the ignore list.
IgnoredNever(f, options) == FALSE

\* The `ignore` option of the glob engine: the file matches one of the
\* negated source strings (matched with `dot` on).
Ignored(f, options) ==
    \E k \in 1..Len(options.ignore) :
        LET g == options.ignore[k] IN
        GlobMatches(f, Resolve(options.cwd, P(g.abs, g.segs)), g.tail, TRUE)

\* globbySync throws: the pattern walks a directory that cannot be read.
globRaises(gp, options) ==
    /\ ~gp.path.negated
    /\ gp.path.tail # ""
    /\ \E u \in UnreadableDirectories :
          IsPrefix(u, Resolve(options.cwd, P(gp.path.abs, gp.path.segs)))

\* GlobPattern.getMatches(): a list holding only negated patterns yields no
\* task for the glob engine, hence no match.
getMatches(gp, options) ==
    LET base == Resolve(options.cwd, P(gp.path.abs, gp.path.segs)) IN
    IF gp.path.negated THEN <<>>
    ELSE SelectSeq(Files, LAMBDA f : /\ GlobMatches(f, base, gp.path.tail, options.dot)
                                     /\ ~Ignored(f, options))

\* ------------------------------------------------------------------ destination mapping (index.js)

\* new Entry(source, relativePath, pattern)
Entry(sourcePath, pattern) == [path |-> sourcePath, pattern |-> pattern]

\* resolveCopyPath
resolveCopyPath(filePath, cwd) ==
    IF filePath.abs THEN Normalize(filePath) ELSE Resolve(cwd, filePath)

\* isSelfCopy
isSelfCopy(from, to, cwd) == resolveCopyPath(to, cwd) = resolveCopyPath(from, cwd)

\* Variant: no file is ever taken to be within the base.
relativizeWithinNothing(base, file) == Undef

\* relativizeWithin: Undef stands for the bare `return`
relativizeWithin(base, file) ==
    LET relativePath == Relative(base, file) IN
    IF StartsWithDotDot(relativePath) \/ relativePath.abs THEN Undef ELSE relativePath

RECURSIVE resolveRelativePath(_, _)
resolveRelativePath(bases, file) ==
    IF bases = <<>> THEN Rel(<<Basename(file)>>)
    ELSE LET relativePath == relativizeWithin(Head(bases), file) IN
         IF relativePath # Undef THEN relativePath
         ELSE resolveRelativePath(Tail(bases), file)

\* resolveCwdRelativePathForGlob
resolveCwdRelativePathForGlob(entry, options) ==
    LET relativeToCwd == relativizeWithin(options.cwd, entry.path)
        globParent == normalizedPath(entry.pattern, options.cwd)
        relativeToGlobParent == relativizeWithin(globParent, entry.path)
        globParentBasename == Basename(globParent)
    IN IF relativeToCwd # Undef THEN relativeToCwd
       ELSE IF relativeToGlobParent # Undef
       THEN IF globParentBasename = "" THEN relativeToGlobParent
            ELSE Join(Rel(<<globParentBasename>>), relativeToGlobParent)
       ELSE Rel(<<Basename(entry.path)>>)

\* computeToForGlob
computeToForGlob(entry, destination, options) ==
    IF options.flat
    THEN IF destination.abs
         THEN Join(destination, Rel(<<Basename(entry.path)>>))
         ELSE Join(Join(options.cwd, destination), Rel(<<Basename(entry.path)>>))
    ELSE LET from == entry.path
             baseA == normalizedPath(entry.pattern, options.cwd)
             baseB == options.cwd
             relativePath == IF options.base = "cwd"
                             THEN resolveCwdRelativePathForGlob(entry, options)
                             ELSE resolveRelativePath(<<baseA, baseB>>, entry.path)
             toPath == Join(destination, relativePath)
             alternativeRelativePath == relativizeWithin(baseB, entry.path)
             \* `alternativeRelativePath ? ... : ...`: undefined and '' are falsy
             alternativeToPath ==
                 IF alternativeRelativePath # Undef /\ alternativeRelativePath.segs # <<>>
                 THEN Join(destination, alternativeRelativePath)
                 ELSE Join(destination, Rel(<<Basename(entry.path)>>))
         IN IF isSelfCopy(from, toPath, options.cwd)
            THEN IF isSelfCopy(from, alternativeToPath, options.cwd)
                 THEN Join(destination, Rel(<<Basename(entry.path)>>))
                 ELSE alternativeToPath
            ELSE toPath

\* computeToForNonGlob
computeToForNonGlob(entry, destination, options) ==
    LET baseDestination == IF destination.abs THEN destination
                           ELSE Join(options.cwd, destination)
        original == PatPath(entry.pattern.originalPath)
        patternBase == IF entry.pattern.isDirectory
                       THEN Resolve(options.cwd, original)
                       ELSE Resolve(options.cwd, Dirname(original))
        relativeToCwd == relativizeWithin(options.cwd, entry.path)
        insideCwd == relativeToCwd # Undef
        relativeToTarget == Relative(entry.pattern.symlinkTarget, entry.path)
        symlinkBase == IF entry.pattern.symlinkRelative # Undef
                       THEN entry.pattern.symlinkRelative
                       ELSE Rel(<<Basename(original)>>)
        originalDir == Resolve(options.cwd, original)
    IN IF options.base = "pattern"
       THEN Join(baseDestination, resolveRelativePath(<<patternBase>>, entry.path))
       ELSE IF /\ entry.pattern.isDirectory
               /\ entry.pattern.symlinkTarget # Undef
               /\ ~StartsWithDotDot(relativeToTarget)
               /\ ~relativeToTarget.abs
       THEN Join(Join(baseDestination, symlinkBase), relativeToTarget)
       ELSE IF entry.pattern.isDirectory /\ ~insideCwd
       THEN Join(Join(baseDestination, Rel(<<Basename(originalDir)>>)),
                 Relative(originalDir, entry.path))
       ELSE IF ~entry.pattern.isDirectory /\ options.flat
       THEN Join(baseDestination, Rel(<<Basename(original)>>))
       ELSE IF relativeToCwd = Undef
       THEN Join(baseDestination, Rel(<<Basename(entry.path)>>))
       ELSE Join(baseDestination, relativeToCwd)

\* preprocessDestinationPath
preprocessDestinationPath(entry, destination, options) ==
    IF hasMagic(entry.pattern, options.flat)
    THEN computeToForGlob(entry, destination, options)
    ELSE computeToForNonGlob(entry, destination, options)

\* The rename option left out.
NoRename == "<none>"

\* Strings that hold a path separator.
WithSeparator == {"d/hi.js", "d\\hi.js"}

\* assertBasename: the names that pass (no separator, not '', '.', '..')
assertBasename(name) == name \notin WithSeparator \cup {"", ".", ".."}

\* renameFile with a string rename (or none); Undef stands for the TypeError
renameFile(destination, rename) ==
    IF rename = NoRename THEN destination
    ELSE IF assertBasename(rename) THEN Join(Dirname(destination), Rel(<<rename>>))
    ELSE Undef

\* ------------------------------------------------------------------ one cpy() operation

VARIABLES
    call,                    \* the arguments: source, destination, options, concurrency
    pc,                      \* "called", "matched", "copying", "resolved", "rejected"
    entries,                 \* getEntries' result, then the entries selected for copying
    destinationPathByEntry,  \* the memo of resolveDestinationPaths, by entry index
    job,                     \* per entry index: "queued", "copying", "done", "failed"
    currentIndex,            \* p-map: index of the next entry to hand to the mapper
    results,                 \* p-map: the mapper's value by entry index
    returned,                \* the list the operation resolved to
    error,                   \* the rejection
    settled,                 \* entry indices in the order their copy ended
    disk,                    \* content of every regular file, by real path
    aborted,                 \* the signal's abort reason, "" while not aborted
    progress,                \* copyStatus, the counters, the last event sent and how many were
    destinationFile,         \* the destination object a rename callback is handed
    reported,                \* per entry index: the writtenBytes its copy primitive reported last
    renameCalls,             \* per entry index: how often the rename callback was invoked
    filterSaw                \* per entry index: the destinationPath the filter read

vars == <<call, pc, entries, destinationPathByEntry, job, currentIndex, results,
          returned, error, settled, disk, aborted, progress, destinationFile,
          reported, renameCalls, filterSaw>>

\* What only an operation with a rename callback changes.
callbackVars == <<renameCalls, filterSaw>>

NoError == [kind |-> "", path |-> Undef, index |-> 0,
            source |-> Undef, destination |-> Undef, cause |-> ""]

\* Content of a file the copy primitive was asked to copy onto itself.
Truncated == Undef

RealFileSet == {RealPath(f) : f \in FileSet}

\* ---- inputs of the runs

CwdPlain == Abs(<<"r", "s">>)

\* A working directory reached through the directory symlink /l -> /o.
CwdLinked == Abs(<<"l", "u">>)

LiteralFilePatterns ==
    { Pat(FALSE, <<"a.txt">>, ""),
      Pat(FALSE, <<"b.txt">>, ""),
      Pat(FALSE, <<"t", "b.txt">>, ""),
      Pat(FALSE, <<"..d", "c.txt">>, ""),
      Pat(FALSE, <<"..", "a.txt">>, ""),
      Pat(TRUE, <<"o", "a.txt">>, "") }

LiteralDirectoryPatterns ==
    { Pat(FALSE, <<"t">>, ""),
      Pat(FALSE, <<"..d">>, ""),
      Pat(FALSE, <<"k">>, ""),
      Pat(FALSE, <<"k", "u">>, ""),
      Pat(FALSE, <<"..">>, ""),
      Pat(FALSE, <<"..", "q">>, "") }

GlobPatterns ==
    { Pat(FALSE, <<>>, "*"),
      Pat(FALSE, <<>>, "**"),
      Pat(FALSE, <<"t">>, "*"),
      Pat(FALSE, <<"..", "q">>, "*") }

AllPatterns == LiteralFilePatterns \cup LiteralDirectoryPatterns \cup GlobPatterns

\* The patterns of the operations with several sources.
OpPatterns ==
    { Pat(FALSE, <<"a.txt">>, ""),
      Pat(FALSE, <<"..", "a.txt">>, ""),
      Pat(FALSE, <<"t", "b.txt">>, ""),
      Pat(FALSE, <<"t">>, "*") }

Destinations ==
    { Rel(<<"out">>), Rel(<<>>), Rel(<<"..">>), Rel(<<"..", "out">>),
      Abs(<<"r", "out">>), Abs(<<"r", "s">>) }

OpDestinations == { Rel(<<"out">>), Rel(<<>>) }

Renames == {NoRename, "hi.js", "a.txt"}

\* Source lists with a missing file, an empty directory, globs without a
\* match, a glob the engine fails on, negations and a file named twice.
SelSources ==
    LET file == Pat(FALSE, <<"a.txt">>, "")
        missing == Pat(FALSE, <<"nope.txt">>, "")
        emptyDirectory == Pat(FALSE, <<"e">>, "")
        noMatch == Pat(FALSE, <<"e">>, "*")
        star == Pat(FALSE, <<>>, "*")
        inT == Pat(FALSE, <<"t">>, "*")
        everything == Pat(FALSE, <<>>, "**")
        unreadable == Pat(TRUE, <<"x">>, "*")
    IN { <<file>>, <<missing>>, <<emptyDirectory>>, <<noMatch>>, <<unreadable>>,
         <<inT, star>>, <<star, missing>>, <<file, unreadable>>,
         <<missing, unreadable>>, <<unreadable, missing>>,
         <<everything, Negation(file)>>, <<everything, Negation(inT)>>,
         <<file, Negation(file)>>, <<missing, Negation(inT)>>,
         <<Negation(file)>>, <<Negation(inT), everything>> }

SelDestinations == { Rel(<<"out">>), Abs(<<"r", "out">>) }

SelRenames == {NoRename, "hi.js", "", "..", "d/hi.js"}

\* The filter option left out.
NoFilter == "<none>"

Filters == {NoFilter, "rejectAll", "rejectATxt"}

\* filter, ignoreExisting and update as given together.
Selections ==
    { [filter |-> f, ignoreExisting |-> FALSE, update |-> FALSE] : f \in Filters }
    \cup { [filter |-> NoFilter, ignoreExisting |-> TRUE, update |-> FALSE],
           [filter |-> NoFilter, ignoreExisting |-> FALSE, update |-> TRUE],
           [filter |-> NoFilter, ignoreExisting |-> TRUE, update |-> TRUE] }

\* signal.reason after abort() and after abort(reason)
AbortReasons == {"AbortError", "custom"}

\* Values of the concurrency option p-map refuses.
InvalidConcurrency == {-2, 0}

RECURSIVE SeqsUpTo(_, _)
SeqsUpTo(S, n) ==
    IF n = 0 THEN {<<>>}
    ELSE LET shorter == SeqsUpTo(S, n - 1) IN
         shorter \cup {Append(q, x) : q \in shorter, x \in S}

\* The options of a call; filter, ignoreExisting, update, signal and dryRun
\* at their defaults, ignore filled in by cpy().
Options(cwd, flat, base, rename, dot) ==
    [cwd |-> cwd, flat |-> flat, base |-> base, rename |-> rename, dot |-> dot,
     filter |-> NoFilter, ignoreExisting |-> FALSE, update |-> FALSE,
     signal |-> FALSE, ignore |-> <<>>, dryRun |-> FALSE]

Call(source, destination, options, concurrency) ==
    [source |-> source, destination |-> destination, options |-> options,
     concurrency |-> concurrency]

\* No rename callback is running.
NoDestinationFile == <<>>

NoProgress ==
    [copyStatus |-> <<>>, completedFiles |-> 0, completedSize |-> 0,
     last |-> <<>>, count |-> 0]

\* State right after cpy() returned its promise, nothing matched yet.
Fresh ==
    /\ pc = "called"
    /\ entries = <<>>
    /\ destinationPathByEntry = <<>>
    /\ job = <<>>
    /\ currentIndex = 1
    /\ results = <<>>
    /\ returned = <<>>
    /\ error = NoError
    /\ settled = <<>>
    /\ disk = [f \in RealFileSet |-> f]
    /\ progress = NoProgress
    /\ destinationFile = NoDestinationFile
    /\ reported = <<>>
    /\ renameCalls = <<>>
    /\ filterSaw = <<>>

\* Operations over lists of sources, default base, any concurrency, the
\* caller holding a signal.
Init ==
    /\ \E source \in SeqsUpTo(OpPatterns, MaxSources) \ {<<>>},
          destination \in OpDestinations,
          flat \in BOOLEAN,
          concurrency \in 1..MaxConcurrency :
            call = Call(source, destination,
                        [Options(CwdPlain, flat, "", NoRename, FALSE) EXCEPT !.signal = TRUE],
                        concurrency)
    /\ aborted = ""
    /\ Fresh

\* Operations over one source of every kind, under every mapping option,
\* copied one file at a time.
InitMap ==
    /\ \E pattern \in AllPatterns,
          cwd \in {CwdPlain, CwdLinked},
          destination \in Destinations,
          flat \in BOOLEAN,
          base \in {"", "cwd", "pattern"},
          rename \in Renames,
          dot \in BOOLEAN :
            call = Call(<<pattern>>, destination,
                        [Options(cwd, flat, base, rename, dot) EXCEPT !.signal = TRUE], 1)
    /\ aborted = ""
    /\ Fresh

\* Operations whose sources may fail to match or match nothing, under every
\* selection option, rename string, concurrency value and signal state.
InitSel ==
    /\ \E source \in SelSources,
          destination \in SelDestinations,
          selection \in Selections,
          rename \in SelRenames,
          signal \in BOOLEAN,
          concurrency \in InvalidConcurrency \cup 1..MaxConcurrency :
            call = Call(source, destination,
                        [Options(CwdPlain, FALSE, "", rename, FALSE)
                            EXCEPT !.filter = selection.filter,
                                   !.ignoreExisting = selection.ignoreExisting,
                                   !.update = selection.update,
                                   !.signal = signal],
                        concurrency)
    /\ aborted \in {""} \cup (IF call.options.signal THEN AbortReasons ELSE {})
    /\ Fresh

\* Source lists whose files meet existing destinations: older, of the same
\* age and size, of the same age and another size, newer.
ExistingSources ==
    LET file == Pat(FALSE, <<"a.txt">>, "")
        newer == Pat(FALSE, <<"..", "a.txt">>, "")
        larger == Pat(FALSE, <<"t", "b.txt">>, "")
    IN { <<file>>, <<newer>>, <<larger>>, <<file, newer>>, <<newer, file>>,
         <<file, larger>> }

ExistingDestinations == { Rel(<<"out">>), Abs(<<"r", "out">>), Rel(<<"..">>) }

ExistingRenames == {NoRename, "a.txt"}

ExistingSelections ==
    { [ignoreExisting |-> i, update |-> u] : i \in BOOLEAN, u \in BOOLEAN }

\* Operations whose destinations may exist already, under ignoreExisting and
\* update, flat and a rename string.
InitExisting ==
    /\ \E source \in ExistingSources,
          destination \in ExistingDestinations,
          flat \in BOOLEAN,
          rename \in ExistingRenames,
          selection \in ExistingSelections,
          concurrency \in 1..MaxConcurrency :
            call = Call(source, destination,
                        [Options(CwdPlain, flat, "", rename, FALSE)
                            EXCEPT !.ignoreExisting = selection.ignoreExisting,
                                   !.update = selection.update,
                                   !.signal = TRUE],
                        concurrency)
    /\ aborted = ""
    /\ Fresh

\* Source lists of literal paths and globs, inside and outside cwd.
DrySources ==
    LET file == Pat(FALSE, <<"a.txt">>, "")
        newer == Pat(FALSE, <<"..", "a.txt">>, "")
        inT == Pat(FALSE, <<"t">>, "*")
    IN { <<file>>, <<inT>>, <<file, inT>>, <<inT, newer>> }

DryDestinations == { Rel(<<"out">>), Abs(<<"r", "out">>) }

DryRenames == {NoRename, "hi.js"}

\* Operations run for real and as a dry run.
InitDry ==
    /\ \E source \in DrySources,
          destination \in DryDestinations,
          flat \in BOOLEAN,
          rename \in DryRenames,
          ignoreExisting \in BOOLEAN,
          dryRun \in BOOLEAN,
          concurrency \in 1..MaxConcurrency :
            call = Call(source, destination,
                        [Options(CwdPlain, flat, "", rename, FALSE)
                            EXCEPT !.ignoreExisting = ignoreExisting,
                                   !.dryRun = dryRun,
                                   !.signal = TRUE],
                        concurrency)
    /\ aborted = ""
    /\ Fresh

\* ---- cpy(): matching

\* `patterns.filter(item => !item.startsWith('!'))`
sourcesOf(source) == SelectSeq(source, LAMBDA g : ~g.negated)

\* `patterns.filter(item => item.startsWith('!'))`
ignoreOf(source) == SelectSeq(source, LAMBDA g : g.negated)

\* `{...options, ignore}`
matchOptions(c) == [c.options EXCEPT !.ignore = ignoreOf(c.source)]

\* `patterns.map(pattern => new GlobPattern(pattern, destination, options))`
patternsOf(c) == [i \in 1..Len(c.source) |-> GlobPattern(c.source[i], c.options.cwd)]

\* Variant: a pattern without a match is never an error.
MissingSourceNever(gp, options) == FALSE

\* getEntries: a literal pattern without a match throws, unless the source
\* list holds a negation
MissingSource(gp, options) ==
    /\ getMatches(gp, options) = <<>>
    /\ ~isDynamicPattern(gp.originalPath)
    /\ ~\E k \in 1..Len(options.ignore) : isDynamicPattern(options.ignore[k])

RECURSIVE getEntries(_, _)
getEntries(patterns, options) ==
    IF patterns = <<>> THEN <<>>
    ELSE LET pattern == Head(patterns)
             matches == getMatches(pattern, options)
         IN [i \in 1..Len(matches) |-> Entry(matches[i], pattern)]
            \o getEntries(Tail(patterns), options)

NoPaths == [destinationPath |-> Undef, resolvedDestinationPath |-> Undef]

\* Variant: the signal is not looked at when cpy() is called.
abortedAtCallIgnored(reason) == FALSE

\* `options.signal?.throwIfAborted()` at the head of the operation
abortedAtCall(reason) == reason # ""

\* The rejection with the signal's reason
AbortRejection(reason) == [NoError EXCEPT !.kind = "Abort", !.cause = reason]

\* The part of cpy() up to getEntries: the signal, the source list, the
\* patterns, the matches.  It runs without yielding.
MatchSources ==
    /\ pc = "called"
    /\ LET options == matchOptions(call)
           patterns == patternsOf(call)
           failing == {i \in 1..Len(patterns) :
                          \/ globRaises(patterns[i], options)
                          \/ MissingSource(patterns[i], options)}
           first == CHOOSE i \in failing : \A j \in failing : i <= j
       IN IF abortedAtCall(aborted)
          THEN /\ pc' = "rejected"
               /\ error' = AbortRejection(aborted)
               /\ UNCHANGED entries
          ELSE IF sourcesOf(call.source) = <<>>
          THEN /\ pc' = "rejected"
               /\ error' = [NoError EXCEPT !.kind = "Required"]
               /\ UNCHANGED entries
          ELSE IF failing # {}
          THEN /\ pc' = "rejected"
               /\ error' = [NoError EXCEPT
                               !.kind = IF globRaises(patterns[first], options)
                                        THEN "GlobFailure" ELSE "SourceNotFound",
                               !.path = PatPath(call.source[first])]
               /\ UNCHANGED entries
          ELSE /\ pc' = "matched"
               /\ entries' = getEntries(patterns, options)
               /\ UNCHANGED error
    /\ UNCHANGED <<call, destinationPathByEntry, job, currentIndex, results, returned,
                   settled, disk, aborted, progress>>
    /\ UNCHANGED <<destinationFile, reported, callbackVars>>

\* ---- resolveDestinationPaths

\* The destination after rename, before the self-copy check (Undef: TypeError).
renamedDestinationPath(entry, c) ==
    renameFile(preprocessDestinationPath(entry, c.destination, c.options), c.options.rename)

\* Variant: the two paths compared as given, unresolved.
refusesSelfCopyAsGiven(entry, destinationPath, cwd) == destinationPath = entry.path

\* `if (isSelfCopy(entry.path, destinationPath, options.cwd)) throw`
refusesSelfCopy(entry, destinationPath, cwd) == isSelfCopy(entry.path, destinationPath, cwd)

\* What resolveDestinationPaths throws for the entry once renameFile has
\* returned destinationPath (Undef: it threw), "" if it returns.
resolutionErrorAt(entry, destinationPath, cwd) ==
    IF destinationPath = Undef THEN "TypeError"
    ELSE IF refusesSelfCopy(entry, destinationPath, cwd) THEN "SelfCopy"
    ELSE ""

\* What resolveDestinationPaths throws for the entry, "" if it returns.
resolutionError(entry, c) ==
    resolutionErrorAt(entry, renamedDestinationPath(entry, c), c.options.cwd)

\* `{destinationPath, resolvedDestinationPath}`
resolvedPaths(destinationPath, cwd) ==
    [destinationPath |-> destinationPath,
     resolvedDestinationPath |-> resolveCopyPath(destinationPath, cwd)]

\* What resolveDestinationPaths returns for the entry.
resolveDestinationPaths(entry, c) ==
    resolvedPaths(renamedDestinationPath(entry, c), c.options.cwd)

\* ---- cpy(): filter, ignoreExisting, update

\* The filter functions of the runs.
passesFilter(filter, entry) ==
    IF filter = "rejectAll" THEN FALSE
    ELSE IF filter = "rejectATxt" THEN Basename(entry.path) # "a.txt"
    ELSE TRUE

\* Variant: update, when given too, takes precedence over ignoreExisting.
shouldIgnoreExistingUnlessUpdate(options) == options.ignoreExisting /\ ~options.update

\* `shouldIgnoreExisting`
shouldIgnoreExisting(options) == options.ignoreExisting

\* `shouldUseUpdate` (overwrite is left at its default)
shouldUseUpdate(options) == options.update /\ ~shouldIgnoreExisting(options)

\* fs.lstat(path) succeeds
ExistsOnDisk(p, d) == RealPath(p) \in DOMAIN d \/ IsDirectoryPath(p) \/ IsSymbolicLink(p)

\* The ignoreExisting pass: an entry stays if no earlier entry has its
\* destination and nothing exists there; tos are the entries' resolved
\* destinations.
RECURSIVE ignoreExistingEntries(_, _, _, _)
ignoreExistingEntries(es, tos, d, destinationPaths) ==
    IF es = <<>> THEN <<>>
    ELSE (IF Head(tos) \in destinationPaths \/ ExistsOnDisk(Head(tos), d)
          THEN <<>> ELSE <<Head(es)>>)
         \o ignoreExistingEntries(Tail(es), Tail(tos), d, destinationPaths \cup {Head(tos)})

\* getDestinationState
getDestinationState(p, d) ==
    IF IsDirectoryPath(p)
    THEN [exists |-> TRUE, nonFile |-> TRUE, mtimeMs |-> 0, size |-> 0]
    ELSE IF RealPath(p) \in DOMAIN d
    THEN [exists |-> TRUE, nonFile |-> FALSE, mtimeMs |-> Mtime(p), size |-> SizeOf(p)]
    ELSE [exists |-> FALSE, nonFile |-> FALSE, mtimeMs |-> 0, size |-> 0]

\* Variant: a source as old as its destination is copied whatever the sizes.
shouldCopyUnlessOlder(entry, destinationState) ==
    \/ ~destinationState.exists
    \/ Mtime(entry.path) >= destinationState.mtimeMs

\* `shouldCopy`
shouldCopy(entry, destinationState) ==
    \/ ~destinationState.exists
    \/ Mtime(entry.path) > destinationState.mtimeMs
    \/ /\ Mtime(entry.path) = destinationState.mtimeMs
       /\ SizeOf(entry.path) # destinationState.size

NoCandidate == [index |-> 0, mtimeMs |-> 0]

\* The loop over entriesWithStats from entry k on: the best candidate of
\* every destination, tos being the entries' resolved destinations (mtimeMs
\* -1 stands for Number.NEGATIVE_INFINITY).
RECURSIVE bestCandidateByDestination(_, _, _, _, _)
bestCandidateByDestination(es, tos, d, k, best) ==
    IF k > Len(es) THEN best
    ELSE LET destinationState == getDestinationState(tos[k], d)
             existingCandidate == best[tos[k]]
             mtimeMs == Mtime(es[k].path)
             isNewerCandidate ==
                 \/ existingCandidate = NoCandidate
                 \/ mtimeMs > existingCandidate.mtimeMs
                 \/ mtimeMs = existingCandidate.mtimeMs /\ k > existingCandidate.index
             updated ==
                 IF destinationState.nonFile
                 THEN IF existingCandidate = NoCandidate
                      THEN [best EXCEPT ![tos[k]] = [index |-> k, mtimeMs |-> -1]]
                      ELSE best
                 ELSE IF ~shouldCopy(es[k], destinationState) THEN best
                 ELSE IF ~isNewerCandidate THEN best
                 ELSE [best EXCEPT ![tos[k]] = [index |-> k, mtimeMs |-> mtimeMs]]
         IN bestCandidateByDestination(es, tos, d, k + 1, updated)

\* `new Set([...bestCandidateByDestination.values()].map(candidate => candidate.entry))`
selectedEntries(es, best) ==
    SelectSeq([k \in 1..Len(es) |-> [entry |-> es[k], index |-> k]],
              LAMBDA x : \E to \in DOMAIN best : best[to].index = x.index)

\* The update pass: the entries that are the best candidate of their
\* destination, tos being their resolved destinations.
updateEntries(es, tos, d) ==
    LET kept == selectedEntries(es,
                    bestCandidateByDestination(es, tos, d, 1,
                        [to \in {tos[k] : k \in 1..Len(tos)} |-> NoCandidate]))
    IN [k \in 1..Len(kept) |-> kept[k].entry]

\* Variant: the empty operation sends no progress event.
emitsEmptyProgressNever(selected) == FALSE

\* `if (entries.length === 0)`: the one progress event of an empty operation
emitsEmptyProgress(selected) == selected = <<>>

EmptyProgressData ==
    [totalFiles |-> 0, percent |-> [num |-> 1, den |-> 1], completedFiles |-> 0,
     completedSize |-> 0, sourcePath |-> Undef, destinationPath |-> Undef]

\* Variant: every concurrency value is taken.
validConcurrencyAny(concurrency) == TRUE

\* p-map: concurrency must be an integer from 1 up
validConcurrency(concurrency) == concurrency >= 1

\* `entries = await pFilter(entries, filterFunction)`
filteredEntries(es, options) ==
    IF options.filter = NoFilter THEN es
    ELSE SelectSeq(es, LAMBDA e : passesFilter(options.filter, e))

\* The resolved destination of every entry, as the ignoreExisting and update
\* passes compute them.
resolvedDestinations(es, c) ==
    [k \in 1..Len(es) |-> resolveDestinationPaths(es[k], c).resolvedDestinationPath]

\* The first entry for which resolveDestinationPaths throws, 0 if none.
firstThrowing(es, c) ==
    IF \A k \in 1..Len(es) : resolutionError(es[k], c) = "" THEN 0
    ELSE CHOOSE k \in 1..Len(es) :
            /\ resolutionError(es[k], c) # ""
            /\ \A m \in 1..(k - 1) : resolutionError(es[m], c) = ""

\* The entries left by the ignoreExisting pass or by the update pass.
passEntries(es, c, d) ==
    IF shouldIgnoreExisting(c.options)
    THEN ignoreExistingEntries(es, resolvedDestinations(es, c), d, {})
    ELSE updateEntries(es, resolvedDestinations(es, c), d)

\* The part of cpy() from the filter to the pMap call.
SelectEntries ==
    /\ pc = "matched"
    /\ \E filtered \in {filteredEntries(entries, call.options)} :
       \E resolvesAll \in {/\ \/ shouldIgnoreExisting(call.options)
                              \/ shouldUseUpdate(call.options)
                           /\ filtered # <<>>} :
       \E first \in {IF resolvesAll THEN firstThrowing(filtered, call) ELSE 0} :
          IF /\ aborted # ""
             /\ \/ call.options.filter # NoFilter
                \/ shouldIgnoreExisting(call.options) /\ filtered # <<>>
          THEN /\ pc' = "rejected"
               /\ error' = AbortRejection(aborted)
               /\ UNCHANGED <<entries, destinationPathByEntry, job, results, progress>>
          ELSE IF first # 0
          THEN /\ \E kind \in {resolutionError(filtered[first], call)} :
                     error' = [NoError EXCEPT
                                  !.kind = kind,
                                  !.path = filtered[first].path,
                                  !.cause = IF kind = "TypeError" THEN "rename" ELSE ""]
               /\ pc' = "rejected"
               /\ UNCHANGED <<entries, destinationPathByEntry, job, results, progress>>
          ELSE \E selected \in {IF resolvesAll THEN passEntries(filtered, call, disk)
                                ELSE filtered} :
               IF aborted # ""
               THEN /\ pc' = "rejected"
                    /\ error' = AbortRejection(aborted)
                    /\ entries' = selected
                    /\ UNCHANGED <<destinationPathByEntry, job, results, progress>>
               ELSE /\ entries' = selected
                    /\ destinationPathByEntry' =
                           [k \in 1..Len(selected) |->
                               IF resolvesAll THEN resolveDestinationPaths(selected[k], call)
                               ELSE NoPaths]
                    /\ job' = [k \in 1..Len(selected) |-> "queued"]
                    /\ results' = [k \in 1..Len(selected) |-> Undef]
                    /\ progress' = IF emitsEmptyProgress(selected)
                                   THEN [progress EXCEPT !.last = EmptyProgressData,
                                                         !.count = @ + 1]
                                   ELSE progress
                    /\ IF validConcurrency(call.concurrency)
                       THEN /\ pc' = "copying"
                            /\ UNCHANGED error
                       ELSE /\ pc' = "rejected"
                            /\ error' = [NoError EXCEPT !.kind = "TypeError",
                                                        !.cause = "concurrency"]
    /\ UNCHANGED <<call, currentIndex, returned, settled, disk, aborted>>
    /\ reported' = [k \in 1..Len(job') |-> 0]
    /\ UNCHANGED <<destinationFile, callbackVars>>

\* ---- progress

\* A fraction; the percent of a copy primitive's event is writtenBytes over
\* the file's size.
Fraction(num, den) == [num |-> num, den |-> den]

SameFraction(a, b) == a.num * b.den = b.num * a.den

IsOne(f) == f.num = f.den

\* `${entry.path}\0${destinationPath}`
statusKey(entry, paths) == <<entry.path, paths.destinationPath>>

\* `copyStatus.get(statusKey) || {writtenBytes: 0, percent: 0}`
fileStatusOf(copyStatus, key) ==
    IF key \in DOMAIN copyStatus THEN copyStatus[key]
    ELSE [writtenBytes |-> 0, percent |-> Fraction(0, 1)]

\* fileProgressHandler(statusKey, event), with entries.length = totalFiles
fileProgressHandler(pg, key, event, totalFiles) ==
    LET fileStatus == fileStatusOf(pg.copyStatus, key)
        completedSize == pg.completedSize - fileStatus.writtenBytes + event.writtenBytes
        completedFiles == IF IsOne(event.percent) /\ ~IsOne(fileStatus.percent)
                          THEN pg.completedFiles + 1 ELSE pg.completedFiles
    IN IF \/ fileStatus.writtenBytes # event.writtenBytes
          \/ ~SameFraction(fileStatus.percent, event.percent)
       THEN [copyStatus |->
                 [k \in DOMAIN pg.copyStatus \cup {key} |->
                     IF k = key THEN [writtenBytes |-> event.writtenBytes,
                                      percent |-> event.percent]
                     ELSE pg.copyStatus[k]],
             completedFiles |-> completedFiles,
             completedSize |-> completedSize,
             last |-> [totalFiles |-> totalFiles,
                       percent |-> Fraction(completedFiles, totalFiles),
                       completedFiles |-> completedFiles,
                       completedSize |-> completedSize,
                       sourcePath |-> event.sourcePath,
                       destinationPath |-> event.destinationPath],
             count |-> pg.count + 1]
       ELSE pg

\* An event of the copy primitive for job i after writtenBytes bytes.
copyProgress(i, writtenBytes) ==
    [writtenBytes |-> writtenBytes,
     percent |-> Fraction(writtenBytes, SizeOf(entries[i].path)),
     sourcePath |-> entries[i].path,
     destinationPath |-> destinationPathByEntry[i].resolvedDestinationPath]

\* reportSkippedCopy's event
skippedProgress(i) ==
    [writtenBytes |-> 0,
     percent |-> Fraction(1, 1),
     sourcePath |-> entries[i].path,
     destinationPath |-> destinationPathByEntry[i].resolvedDestinationPath]

\* ---- p-map over copyFileMapper

\* Variant: the queue is drained even after a mapper has thrown.
mapperMayStartAfterRejection(state) == state \in {"copying", "rejected"}

\* p-map calls the mapper for no further entry once a mapper has thrown
mapperMayStart(state) == state = "copying"

Started(i) == job[i] \in {"copying", "done", "failed"}

InFlight == {i \in 1..Len(job) : job[i] = "copying"}

\* Variant: one mapper more than `concurrency` may be pending.
hasFreeSlotOffByOne(inFlight, concurrency) == Cardinality(inFlight) <= concurrency

\* p-map starts a mapper only while fewer than `concurrency` are pending
hasFreeSlot(inFlight, concurrency) == Cardinality(inFlight) < concurrency

\* Variant: values pushed in the order the mappers complete.
storeResultOnCompletion(rs, index, value) ==
    LET free == {k \in 1..Len(rs) : rs[k] = Undef}
        first == CHOOSE k \in free : \A m \in free : k <= m
    IN [rs EXCEPT ![first] = value]

\* p-map: `results[index] = value`
storeResult(rs, index, value) == [rs EXCEPT ![index] = value]

\* Variant: a dry run returns the path the copy would have been given.
dryRunResultAsCopied(destinationPath, cwd) == destinationPath

\* What copyFileMapper returns in a dry run: `return resolvedDestinationPath`
dryRunResult(destinationPath, cwd) == resolveCopyPath(destinationPath, cwd)

\* The dry run's progress event for one entry
dryRunProgress(pg, entry, resolvedDestinationPath, totalFiles) ==
    [pg EXCEPT !.completedFiles = @ + 1,
               !.last = [totalFiles |-> totalFiles,
                         percent |-> Fraction(pg.completedFiles + 1, totalFiles),
                         completedFiles |-> pg.completedFiles + 1,
                         completedSize |-> pg.completedSize,
                         sourcePath |-> entry.path,
                         destinationPath |-> resolvedDestinationPath],
               !.count = @ + 1]

\* p-map hands the next entry to copyFileMapper, which resolves the entry's
\* destination and calls the copy primitive; in a dry run it reports the file
\* as completed and returns the resolved destination instead.
StartJob ==
    /\ mapperMayStart(pc)
    /\ currentIndex <= Len(entries)
    /\ hasFreeSlot(InFlight, call.concurrency)
    /\ LET i == currentIndex
           entry == entries[i]
           destinationPath == renamedDestinationPath(entry, call)
       IN /\ currentIndex' = i + 1
          /\ IF destinationPath = Undef
             THEN /\ pc' = "rejected"
                  /\ error' = [NoError EXCEPT !.kind = "TypeError", !.path = entry.path,
                                              !.index = i, !.cause = "rename"]
                  /\ UNCHANGED <<destinationPathByEntry, job, results, settled, progress>>
             ELSE IF refusesSelfCopy(entry, destinationPath, call.options.cwd)
             THEN /\ pc' = "rejected"
                  /\ error' = [NoError EXCEPT !.kind = "SelfCopy", !.path = entry.path,
                                              !.index = i]
                  /\ UNCHANGED <<destinationPathByEntry, job, results, settled, progress>>
             ELSE /\ destinationPathByEntry' =
                        [destinationPathByEntry EXCEPT ![i] =
                            [destinationPath |-> destinationPath,
                             resolvedDestinationPath |->
                                 resolveCopyPath(destinationPath, call.options.cwd)]]
                  /\ IF call.options.dryRun
                     THEN /\ job' = [job EXCEPT ![i] = "done"]
                          /\ results' = storeResult(results, i,
                                             dryRunResult(destinationPath, call.options.cwd))
                          /\ settled' = Append(settled, i)
                          /\ progress' = dryRunProgress(progress, entry,
                                             resolveCopyPath(destinationPath, call.options.cwd),
                                             Len(entries))
                     ELSE /\ job' = [job EXCEPT ![i] = "copying"]
                          /\ UNCHANGED <<results, settled, progress>>
                  /\ UNCHANGED <<pc, error>>
    /\ UNCHANGED <<call, entries, returned, disk, aborted>>
    /\ UNCHANGED <<destinationFile, reported, callbackVars>>

\* The copy primitive of job i reports some bytes written, not yet all.
ReportProgress(i) ==
    /\ i \in InFlight
    /\ progress.count < MaxProgressReports
    /\ \E writtenBytes \in 1..(SizeOf(entries[i].path) - 1) :
          /\ progress' = fileProgressHandler(progress,
                                             statusKey(entries[i], destinationPathByEntry[i]),
                                             copyProgress(i, writtenBytes), Len(entries))
          /\ reported' = [reported EXCEPT ![i] = writtenBytes]
    /\ UNCHANGED <<call, pc, entries, destinationPathByEntry, job, currentIndex, results,
                   returned, error, settled, disk, aborted>>
    /\ UNCHANGED <<destinationFile, callbackVars>>

\* What the destination file holds once the copy primitive is done.
copiedContent(from, to, content) == IF from = to THEN {content, Truncated} ELSE {content}

\* The copy primitive of job i succeeds, its last event reporting every byte
\* written; the mapper returns destinationPath, or throws the signal's reason
\* if the signal is aborted by then.  With ignoreExisting the primitive does
\* not overwrite.
FinishJob(i) ==
    /\ i \in InFlight
    /\ LET from == RealPath(entries[i].path)
           to == RealPath(destinationPathByEntry[i].resolvedDestinationPath)
       IN /\ ~IsDirectoryPath(to)
          /\ shouldIgnoreExisting(call.options) => to \notin DOMAIN disk
          /\ \E content \in copiedContent(from, to, disk[from]) :
                disk' = [f \in DOMAIN disk \cup {to} |-> IF f = to THEN content ELSE disk[f]]
    /\ progress' = fileProgressHandler(progress,
                                       statusKey(entries[i], destinationPathByEntry[i]),
                                       copyProgress(i, SizeOf(entries[i].path)),
                                       Len(entries))
    /\ IF aborted # ""
       THEN /\ job' = [job EXCEPT ![i] = "failed"]
            /\ IF pc = "copying"
               THEN pc' = "rejected" /\ error' = AbortRejection(aborted)
               ELSE UNCHANGED <<pc, error>>
            /\ UNCHANGED results
       ELSE /\ job' = [job EXCEPT ![i] = "done"]
            /\ results' = storeResult(results, i, destinationPathByEntry[i].destinationPath)
            /\ UNCHANGED <<pc, error>>
    /\ settled' = Append(settled, i)
    /\ UNCHANGED <<call, entries, destinationPathByEntry, currentIndex, returned, aborted>>
    /\ reported' = [reported EXCEPT ![i] = SizeOf(entries[i].path)]
    /\ UNCHANGED <<destinationFile, callbackVars>>

\* Error codes of a failing copy primitive; it refuses an existing destination
\* only when told not to overwrite.
CopyErrorCodes(options) ==
    IF shouldIgnoreExisting(options) THEN {"EACCES", "EEXIST"} ELSE {"EACCES"}

\* Variant: the error names the absolute source path and no destination.
copyFailureBare(i, code) ==
    [NoError EXCEPT !.kind = "CopyFailure", !.path = entries[i].path, !.index = i,
                    !.source = entries[i].path, !.cause = code]

\* new CpyError(`Cannot copy from ${entry.relativePath} to ${destinationPath}`, {cause})
copyFailure(i, code) ==
    [NoError EXCEPT !.kind = "CopyFailure", !.path = entries[i].path, !.index = i,
                    !.source = Relative(call.options.cwd, entries[i].path),
                    !.destination = destinationPathByEntry[i].destinationPath,
                    !.cause = code]

\* The copy primitive of job i fails.  The mapper throws the signal's reason
\* if the signal is aborted, reports a skipped copy if ignoreExisting is set
\* and the destination exists, and throws a CpyError otherwise; what it
\* throws rejects the operation unless it is settled already.
FailJob(i) ==
    /\ i \in InFlight
    /\ \E code \in CopyErrorCodes(call.options) :
          IF aborted # ""
          THEN /\ job' = [job EXCEPT ![i] = "failed"]
               /\ IF pc = "copying"
                  THEN pc' = "rejected" /\ error' = AbortRejection(aborted)
                  ELSE UNCHANGED <<pc, error>>
               /\ UNCHANGED <<progress, reported>>
          ELSE IF shouldIgnoreExisting(call.options) /\ code = "EEXIST"
          THEN /\ job' = [job EXCEPT ![i] = "done"]
               /\ progress' = fileProgressHandler(progress,
                                  statusKey(entries[i], destinationPathByEntry[i]),
                                  skippedProgress(i), Len(entries))
               /\ reported' = [reported EXCEPT ![i] = 0]
               /\ UNCHANGED <<pc, error>>
          ELSE /\ job' = [job EXCEPT ![i] = "failed"]
               /\ IF pc = "copying"
                  THEN pc' = "rejected" /\ error' = copyFailure(i, code)
                  ELSE UNCHANGED <<pc, error>>
               /\ UNCHANGED <<progress, reported>>
    /\ settled' = Append(settled, i)
    /\ UNCHANGED <<call, entries, destinationPathByEntry, currentIndex, results, returned,
                   disk, aborted>>
    /\ UNCHANGED <<destinationFile, callbackVars>>

\* Variant: p-map has no listener on the signal.
rejectsOnAbortNever(state) == FALSE

\* p-map's listener rejects the pending promise with signal.reason
rejectsOnAbort(state) == state = "copying"

\* The caller aborts the signal while the operation is pending.
Abort ==
    /\ call.options.signal
    /\ aborted = ""
    /\ \/ pc = "matched"
       \/ pc = "copying" /\ \E i \in 1..Len(job) : job[i] \in {"queued", "copying"}
    /\ \E reason \in AbortReasons :
          /\ aborted' = reason
          /\ IF rejectsOnAbort(pc)
             THEN pc' = "rejected" /\ error' = AbortRejection(reason)
             ELSE UNCHANGED <<pc, error>>
    /\ UNCHANGED <<call, entries, destinationPathByEntry, job, currentIndex, results,
                   returned, settled, disk, progress>>
    /\ UNCHANGED <<destinationFile, reported, callbackVars>>

\* `results.filter(destinationPath => destinationPath !== undefined)`
definedResults(rs) == SelectSeq(rs, LAMBDA r : r # Undef)

\* Every mapper has returned: p-map resolves and cpy returns the list.
ResolveOperation ==
    /\ pc = "copying"
    /\ \A i \in 1..Len(job) : job[i] = "done"
    /\ pc' = "resolved"
    /\ returned' = definedResults(results)
    /\ UNCHANGED <<call, entries, destinationPathByEntry, job, currentIndex, results,
                   error, settled, disk, aborted, progress>>
    /\ UNCHANGED <<destinationFile, reported, callbackVars>>

Next ==
    \/ MatchSources
    \/ SelectEntries
    \/ StartJob
    \/ \E i \in 1..Len(job) : ReportProgress(i)
    \/ \E i \in 1..Len(job) : FinishJob(i)
    \/ \E i \in 1..Len(job) : FailJob(i)
    \/ Abort
    \/ ResolveOperation

Spec == Init /\ [][Next]_vars

SpecMap == InitMap /\ [][Next]_vars

SpecSel == InitSel /\ [][Next]_vars

SpecExisting == InitExisting /\ [][Next]_vars

SpecDry == InitDry /\ [][Next]_vars

\* ------------------------------------------------------------------ the rename callback's destination object

\* Here a string is the sequence of its characters and a resolved path the
\* sequence of its segments, so what parsing and joining do to a name shows.
Chars == {"a", ".", "/"}

MaxNameLen == 3

MaxAssignments == 2

Strings == SeqsUpTo(Chars, MaxNameLen)

Dot == <<".">>

DotDot == <<".", ".">>

\* What a setter's validation yields when it throws its TypeError.
Thrown == <<"TypeError">>

hasSeparator(string) == \E i \in 1..Len(string) : string[i] \in {"/", "\\"}

LastIndexOf(string, char) ==
    LET found == {i \in 1..Len(string) : string[i] = char}
    IN IF found = {} THEN 0 ELSE CHOOSE i \in found : \A j \in found : j <= i

\* path.extname of a name without separator: from the last dot on, unless
\* there is no dot, the last dot is the first character, or the name is '..'
extname(basename) ==
    LET startDot == LastIndexOf(basename, ".")
    IN IF startDot <= 1 \/ basename = DotDot THEN <<>>
       ELSE SubSeq(basename, startDot, Len(basename))

\* path.basename(name, suffix) of a name without separator
basenameWithout(basename, suffix) ==
    IF suffix = <<>> \/ Len(suffix) > Len(basename) THEN basename
    ELSE IF suffix = basename THEN <<>>
    ELSE IF SubSeq(basename, Len(basename) - Len(suffix) + 1, Len(basename)) = suffix
    THEN SubSeq(basename, 1, Len(basename) - Len(suffix))
    ELSE basename

parseBasename(basename) ==
    LET extension == extname(basename)
    IN [name |-> basename,
        nameWithoutExtension |-> basenameWithout(basename, extension),
        extension |-> IF extension = <<>> THEN <<>> ELSE Tail(extension)]

\* assertBasename as the destination setters call it
assertDestinationBasename(name) ==
    /\ ~hasSeparator(name)
    /\ name \notin {<<>>, Dot, DotDot}

\* assertDestinationExtension: the extension without its one leading dot, or
\* the TypeError for a separator or a further dot
assertDestinationExtension(extension) ==
    LET normalizedExtension == IF extension # <<>> /\ Head(extension) = "."
                               THEN Tail(extension) ELSE extension
    IN IF hasSeparator(normalizedExtension) \/ LastIndexOf(normalizedExtension, ".") # 0
       THEN Thrown
       ELSE normalizedExtension

RECURSIVE SplitPath(_, _, _)
\* the segments of a path string, the empty ones dropped
SplitPath(string, k, segment) ==
    IF k > Len(string)
    THEN IF segment = <<>> THEN <<>> ELSE <<segment>>
    ELSE IF string[k] = "/"
    THEN (IF segment = <<>> THEN <<>> ELSE <<segment>>) \o SplitPath(string, k + 1, <<>>)
    ELSE SplitPath(string, k + 1, Append(segment, string[k]))

RECURSIVE NormalizeSegments(_, _)
\* path.normalize on the segments of an absolute path
NormalizeSegments(segments, resolved) ==
    IF segments = <<>> THEN resolved
    ELSE IF Head(segments) = Dot THEN NormalizeSegments(Tail(segments), resolved)
    ELSE IF Head(segments) = DotDot
    THEN NormalizeSegments(Tail(segments),
                           IF resolved = <<>> THEN <<>>
                           ELSE SubSeq(resolved, 1, Len(resolved) - 1))
    ELSE NormalizeSegments(Tail(segments), Append(resolved, Head(segments)))

\* path.resolve(directory, nextPath) for a resolved directory
resolveFrom(directory, nextPath) ==
    IF nextPath # <<>> /\ Head(nextPath) = "/"
    THEN NormalizeSegments(SplitPath(nextPath, 1, <<>>), <<>>)
    ELSE NormalizeSegments(directory \o SplitPath(nextPath, 1, <<>>), <<>>)

\* path.join(directory, name) for a name without separator
joinName(directory, name) ==
    NormalizeSegments(IF name = <<>> THEN directory ELSE Append(directory, name), <<>>)

dirnameOf(resolved) ==
    IF resolved = <<>> THEN <<>> ELSE SubSeq(resolved, 1, Len(resolved) - 1)

basenameOf(resolved) == IF resolved = <<>> THEN <<>> ELSE resolved[Len(resolved)]

\* The directory of the destination before the callback runs: /d/o
Directory == << <<"d">>, <<"o">> >>

InitialNames == { <<"a">>, <<"a", ".", "a">>, <<".", "a">> }

\* createDestinationFile's state for the destination `directory`/`basename`
createDestinationFile(directory, basename) ==
    LET parsed == parseBasename(basename)
    IN [directory |-> directory,
        name |-> parsed.name,
        nameWithoutExtension |-> parsed.nameWithoutExtension,
        extension |-> parsed.extension,
        path |-> joinName(directory, basename),
        assignments |-> 0]

updateNameValues(file, nextName) ==
    LET parsed == parseBasename(nextName)
    IN [file EXCEPT !.name = parsed.name,
                    !.nameWithoutExtension = parsed.nameWithoutExtension,
                    !.extension = parsed.extension,
                    !.path = joinName(file.directory, parsed.name),
                    !.assignments = @ + 1]

\* The name the setters of nameWithoutExtension and extension put together.
composedName(nameWithoutExtension, extension) ==
    IF extension = <<>> THEN nameWithoutExtension
    ELSE nameWithoutExtension \o Dot \o extension

RejectRename ==
    /\ pc' = "rejected"
    /\ error' = [NoError EXCEPT !.kind = "TypeError", !.cause = "rename"]
    /\ UNCHANGED destinationFile

\* A two-argument rename callback is running on the destination object.
Renaming ==
    /\ pc = "renaming"
    /\ destinationFile.assignments < MaxAssignments

\* `destination.path = nextPath`
updatePath(nextPath) ==
    /\ Renaming
    /\ \E resolvedNextPath \in {resolveFrom(destinationFile.directory, nextPath)} :
         IF /\ dirnameOf(resolvedNextPath) = destinationFile.directory
            /\ assertDestinationBasename(basenameOf(resolvedNextPath))
         THEN /\ destinationFile' =
                    updateNameValues(destinationFile, basenameOf(resolvedNextPath))
              /\ UNCHANGED <<pc, error>>
         ELSE RejectRename
    /\ UNCHANGED <<call, entries, destinationPathByEntry, job, currentIndex, results,
                   returned, settled, disk, aborted, progress, reported, callbackVars>>

\* `destination.name = nextName`
updateName(nextName) ==
    /\ Renaming
    /\ IF assertDestinationBasename(nextName)
       THEN /\ destinationFile' = updateNameValues(destinationFile, nextName)
            /\ UNCHANGED <<pc, error>>
       ELSE RejectRename
    /\ UNCHANGED <<call, entries, destinationPathByEntry, job, currentIndex, results,
                   returned, settled, disk, aborted, progress, reported, callbackVars>>

\* `destination.nameWithoutExtension = nextNameWithoutExtension`
updateNameWithoutExtension(nextNameWithoutExtension) ==
    /\ Renaming
    /\ IF assertDestinationBasename(nextNameWithoutExtension)
       THEN /\ \E name \in {composedName(nextNameWithoutExtension,
                                         destinationFile.extension)} :
                 destinationFile' =
                    [destinationFile EXCEPT
                        !.nameWithoutExtension = nextNameWithoutExtension,
                        !.name = name,
                        !.path = joinName(destinationFile.directory, name),
                        !.assignments = @ + 1]
            /\ UNCHANGED <<pc, error>>
       ELSE RejectRename
    /\ UNCHANGED <<call, entries, destinationPathByEntry, job, currentIndex, results,
                   returned, settled, disk, aborted, progress, reported, callbackVars>>

\* `destination.extension = nextExtension`
updateExtension(nextExtension) ==
    /\ Renaming
    /\ \E extension \in {assertDestinationExtension(nextExtension)} :
         IF extension # Thrown
         THEN /\ \E name \in {composedName(destinationFile.nameWithoutExtension,
                                            extension)} :
                   destinationFile' =
                      [destinationFile EXCEPT
                          !.extension = extension,
                          !.name = name,
                          !.path = joinName(destinationFile.directory, name),
                          !.assignments = @ + 1]
              /\ UNCHANGED <<pc, error>>
         ELSE RejectRename
    /\ UNCHANGED <<call, entries, destinationPathByEntry, job, currentIndex, results,
                   returned, settled, disk, aborted, progress, reported, callbackVars>>

\* The callback returns undefined: renameFile answers `destinationFile.path`.
RenameReturns ==
    /\ pc = "renaming"
    /\ pc' = "renamed"
    /\ UNCHANGED <<call, entries, destinationPathByEntry, job, currentIndex, results,
                   returned, error, settled, disk, aborted, progress, destinationFile,
                   reported, callbackVars>>

\* renameFile has called a two-argument rename callback for one entry.
InitRename ==
    /\ \E basename \in InitialNames :
         destinationFile = createDestinationFile(Directory, basename)
    /\ call = Call(<<>>, Undef, Options(CwdPlain, FALSE, "", NoRename, FALSE), 1)
    /\ pc = "renaming"
    /\ entries = <<>>
    /\ destinationPathByEntry = <<>>
    /\ job = <<>>
    /\ currentIndex = 1
    /\ results = <<>>
    /\ returned = <<>>
    /\ error = NoError
    /\ settled = <<>>
    /\ disk = [f \in RealFileSet |-> f]
    /\ progress = NoProgress
    /\ aborted = ""
    /\ reported = <<>>
    /\ renameCalls = <<>>
    /\ filterSaw = <<>>

NextRename ==
    \/ \E nextPath \in Strings : updatePath(nextPath)
    \/ \E nextName \in Strings : updateName(nextName)
    \/ \E nextNameWithoutExtension \in Strings :
         updateNameWithoutExtension(nextNameWithoutExtension)
    \/ \E nextExtension \in Strings : updateExtension(nextExtension)
    \/ RenameReturns

SpecRename == InitRename /\ [][NextRename]_vars

\* ------------------------------------------------------------------ the memo of resolveDestinationPaths

\* options.rename is a function; what it makes of a name may differ from one
\* invocation to the next.
RenameCallback == "<callback>"

\* The names the callback may come up with.
CallbackNames == {"hi.js", "a.txt", ".."}

\* A filter that reads context.destinationPath and keeps every entry.
ReadsDestination == "readsDestination"

MemoSources ==
    { <<Pat(FALSE, <<"a.txt">>, "")>>,
      <<Pat(FALSE, <<"a.txt">>, ""), Pat(FALSE, <<"t", "b.txt">>, "")>> }

MemoDestinations == { Rel(<<"out">>), Rel(<<>>), Abs(<<"r", "out">>) }

\* Variant: every request calls renameFile anew.
resolutionsUncached(i) ==
    { LET destinationPath ==
              renameFile(preprocessDestinationPath(entries[i], call.destination,
                                                   call.options), name)
          thrown == resolutionErrorAt(entries[i], destinationPath, call.options.cwd)
      IN [calls |-> 1, error |-> thrown,
          paths |-> IF thrown = "" THEN resolvedPaths(destinationPath, call.options.cwd)
                    ELSE NoPaths] : name \in CallbackNames }

\* The outcomes of resolveDestinationPaths(entry i): the cached paths, or for
\* every name the callback may make one invocation of it, the result checked
\* and cached unless it throws.
resolutions(i) ==
    IF destinationPathByEntry[i] # NoPaths
    THEN {[calls |-> 0, error |-> "", paths |-> destinationPathByEntry[i]]}
    ELSE { LET destinationPath ==
                   renameFile(preprocessDestinationPath(entries[i], call.destination,
                                                        call.options), name)
               thrown == resolutionErrorAt(entries[i], destinationPath, call.options.cwd)
           IN [calls |-> 1, error |-> thrown,
               paths |-> IF thrown = "" THEN resolvedPaths(destinationPath, call.options.cwd)
                         ELSE NoPaths] : name \in CallbackNames }

\* One outcome of resolveDestinationPaths(entry i) takes effect.
Resolved(i, outcome) ==
    /\ renameCalls' = [renameCalls EXCEPT ![i] = @ + outcome.calls]
    /\ IF outcome.error # ""
       THEN /\ pc' = "rejected"
            /\ error' = [NoError EXCEPT !.kind = outcome.error, !.path = entries[i].path,
                                        !.index = i]
            /\ UNCHANGED destinationPathByEntry
       ELSE /\ destinationPathByEntry' = [destinationPathByEntry EXCEPT ![i] = outcome.paths]
            /\ UNCHANGED <<pc, error>>

\* The filter function is called for the next entry and reads
\* context.destinationPath.
FilterAsks ==
    /\ pc = "filtering"
    /\ call.options.filter = ReadsDestination
    /\ currentIndex <= Len(entries)
    /\ \E outcome \in resolutions(currentIndex) :
          /\ Resolved(currentIndex, outcome)
          /\ filterSaw' = IF outcome.error = ""
                          THEN [filterSaw EXCEPT ![currentIndex] =
                                   outcome.paths.resolvedDestinationPath]
                          ELSE filterSaw
    /\ currentIndex' = currentIndex + 1
    /\ UNCHANGED <<call, entries, job, results, returned, settled, disk, aborted,
                   progress, destinationFile, reported>>

\* The filter has answered for every entry, or there is none.
EndFilter ==
    /\ pc = "filtering"
    /\ call.options.filter = NoFilter \/ currentIndex > Len(entries)
    /\ pc' = IF shouldIgnoreExisting(call.options) \/ shouldUseUpdate(call.options)
             THEN "checking" ELSE "mapping"
    /\ currentIndex' = 1
    /\ UNCHANGED <<call, entries, destinationPathByEntry, job, results, returned, error,
                   settled, disk, aborted, progress, destinationFile, reported,
                   callbackVars>>

\* The ignoreExisting check, or the update check, asks for the destination
\* of the next entry.
CheckAsks ==
    /\ pc = "checking"
    /\ currentIndex <= Len(entries)
    /\ \E outcome \in resolutions(currentIndex) : Resolved(currentIndex, outcome)
    /\ currentIndex' = currentIndex + 1
    /\ UNCHANGED <<call, entries, job, results, returned, settled, disk, aborted,
                   progress, destinationFile, reported, filterSaw>>

\* The check has the destination of every entry and drops the entries that
\* are not to be copied.
EndCheck ==
    /\ pc = "checking"
    /\ currentIndex > Len(entries)
    /\ \E tos \in {[k \in 1..Len(entries) |-> destinationPathByEntry[k].resolvedDestinationPath]} :
       \E kept \in {IF shouldIgnoreExisting(call.options)
                    THEN ignoreExistingEntries(entries, tos, disk, {})
                    ELSE updateEntries(entries, tos, disk)} :
          job' = [k \in 1..Len(entries) |->
                     IF \E m \in 1..Len(kept) : kept[m] = entries[k]
                     THEN "queued" ELSE "dropped"]
    /\ pc' = "mapping"
    /\ currentIndex' = 1
    /\ UNCHANGED <<call, entries, destinationPathByEntry, results, returned, error,
                   settled, disk, aborted, progress, destinationFile, reported,
                   callbackVars>>

\* copyFileMapper runs for the next entry that was kept: it asks for the
\* destination and copies the file there.
MapperAsks ==
    /\ pc = "mapping"
    /\ currentIndex <= Len(entries)
    /\ IF job[currentIndex] = "dropped"
       THEN UNCHANGED <<pc, error, destinationPathByEntry, job, results, disk, settled,
                        renameCalls>>
       ELSE \E outcome \in resolutions(currentIndex) :
               /\ Resolved(currentIndex, outcome)
               /\ IF outcome.error # ""
                  THEN UNCHANGED <<job, results, disk, settled>>
                  ELSE /\ job' = [job EXCEPT ![currentIndex] = "done"]
                       /\ results' = [results EXCEPT ![currentIndex] =
                                         outcome.paths.destinationPath]
                       /\ settled' = Append(settled, currentIndex)
                       /\ \E to \in {RealPath(outcome.paths.resolvedDestinationPath)} :
                             disk' = [f \in DOMAIN disk \cup {to} |->
                                         IF f = to THEN disk[RealPath(entries[currentIndex].path)]
                                         ELSE disk[f]]
    /\ currentIndex' = currentIndex + 1
    /\ UNCHANGED <<call, entries, returned, aborted, progress, destinationFile, reported,
                   filterSaw>>

\* Every mapper has returned.
EndMapping ==
    /\ pc = "mapping"
    /\ currentIndex > Len(entries)
    /\ pc' = "resolved"
    /\ returned' = definedResults(results)
    /\ UNCHANGED <<call, entries, destinationPathByEntry, job, currentIndex, results,
                   error, settled, disk, aborted, progress, destinationFile, reported,
                   callbackVars>>

\* Operations with a rename callback whose entries are matched already.
InitMemo ==
    /\ \E source \in MemoSources,
          destination \in MemoDestinations,
          filter \in {NoFilter, ReadsDestination},
          selection \in ExistingSelections :
            call = Call(source, destination,
                        [Options(CwdPlain, FALSE, "", RenameCallback, FALSE)
                            EXCEPT !.filter = filter,
                                   !.ignoreExisting = selection.ignoreExisting,
                                   !.update = selection.update],
                        1)
    /\ entries = getEntries(patternsOf(call), matchOptions(call))
    /\ pc = "filtering"
    /\ destinationPathByEntry = [k \in 1..Len(entries) |-> NoPaths]
    /\ job = [k \in 1..Len(entries) |-> "queued"]
    /\ results = [k \in 1..Len(entries) |-> Undef]
    /\ renameCalls = [k \in 1..Len(entries) |-> 0]
    /\ filterSaw = [k \in 1..Len(entries) |-> Undef]
    /\ currentIndex = 1
    /\ returned = <<>>
    /\ error = NoError
    /\ settled = <<>>
    /\ disk = [f \in RealFileSet |-> f]
    /\ progress = NoProgress
    /\ aborted = ""
    /\ destinationFile = NoDestinationFile
    /\ reported = <<>>

NextMemo ==
    \/ FilterAsks
    \/ EndFilter
    \/ CheckAsks
    \/ EndCheck
    \/ MapperAsks
    \/ EndMapping

SpecMemo == InitMemo /\ [][NextMemo]_vars

\* ------------------------------------------------------------------ shorthands of the properties

Cwd == call.options.cwd

\* resolve(cwd, destination)
DestinationRoot == Resolve(Cwd, call.destination)

Indices == 1..Len(job)

\* The resolved path handed to the copy primitive for entry i.
HandedTo(i) == destinationPathByEntry[i].resolvedDestinationPath

DefaultMapping == ~call.options.flat /\ call.options.base = ""

FromLiteral(e) == ~isDynamicPattern(e.pattern.originalPath)

\* The path a literal pattern names.
Target(e) == Resolve(Cwd, PatPath(e.pattern.originalPath))

\* ------------------------------------------------------------------ C1

\* C1: the copy primitive is never handed a destination that resolves against
\* cwd to the entry's own source; an entry whose destination after rename
\* resolves to its source is not copied, and the operation is rejected with
\* "Refusing to copy to itself" for it.
C1_NeverCopiesOntoItself ==
    /\ \A i \in Indices :
          Started(i) => Resolve(Cwd, destinationPathByEntry[i].destinationPath) # entries[i].path
    /\ \A i \in Indices :
          (i < currentIndex /\ Resolve(Cwd, renamedDestinationPath(entries[i], call)) = entries[i].path)
          => /\ ~Started(i)
             /\ pc = "rejected"
             /\ error.kind = "SelfCopy"
             /\ error.index = i

\* A rejected self-copy whose destination went through a rename.
C1_Witness ==
    /\ error.kind = "SelfCopy"
    /\ call.options.rename # NoRename
    /\ \A i \in Indices : ~Started(i)

\* ------------------------------------------------------------------ C2

\* C2 as stated: once the operation is rejected with "Refusing to copy to
\* itself" for file F, F holds its original content.
C2_RefusedFileUnmodified ==
    error.kind = "SelfCopy" => disk[RealPath(error.path)] = RealPath(error.path)

\* C2 amended: the refused entry's own job is never started and no later
\* entry is started; F holds its original content unless an earlier entry of
\* the operation has F as its destination.
C2_RefusedFileUnmodifiedUnlessTargeted ==
    error.kind = "SelfCopy" =>
        /\ \A j \in Indices : j >= error.index => job[j] = "queued"
        /\ (\A j \in Indices : j < error.index => RealPath(HandedTo(j)) # RealPath(error.path))
           => disk[RealPath(error.path)] = RealPath(error.path)

\* A refusal after an earlier entry of the operation was copied elsewhere.
C2_Witness ==
    /\ error.kind = "SelfCopy"
    /\ error.index > 1
    /\ job[1] = "done"
    /\ RealPath(HandedTo(1)) # RealPath(error.path)

\* ------------------------------------------------------------------ C3

\* C3: every destination handed to the copy primitive lies strictly below
\* resolve(cwd, destination).
C3_NoTraversalEscape ==
    \A i \in Indices : Started(i) => IsProperPrefix(DestinationRoot, HandedTo(i))

\* ------------------------------------------------------------------ C4

GlobParentRelative(e) == Relative(normalizedPath(e.pattern, Cwd), e.path)

\* C4: a file matched by a glob, copied non-flat with no base and no rename
\* to D, lands at D joined with its path relative to the glob parent, unless
\* that path is the source itself.
C4_StructurePreserved ==
    \A i \in Indices :
        LET expected == Join(call.destination, GlobParentRelative(entries[i])) IN
        (/\ Started(i)
         /\ ~FromLiteral(entries[i])
         /\ DefaultMapping
         /\ call.options.rename = NoRename
         /\ Resolve(Cwd, expected) # entries[i].path)
        => destinationPathByEntry[i].destinationPath = expected

\* ------------------------------------------------------------------ C5

FlatDestination(e) == Join(DestinationRoot, Rel(<<Basename(e.path)>>))

\* C5: with flat, the destination of every entry before rename resolves to
\* resolve(cwd, destination)/<basename of the entry>, whatever kind of pattern
\* it came from, so entries with one basename share one destination.
C5_FlatDestination ==
    call.options.flat =>
        /\ \A i \in 1..Len(entries) :
              Resolve(Cwd, preprocessDestinationPath(entries[i], call.destination, call.options))
                  = FlatDestination(entries[i])
        /\ \A i \in Indices :
              (Started(i) /\ call.options.rename = NoRename)
              => HandedTo(i) = FlatDestination(entries[i])
        /\ \A i, j \in Indices :
              (/\ Started(i) /\ Started(j)
               /\ call.options.rename = NoRename
               /\ Basename(entries[i].path) = Basename(entries[j].path))
              => HandedTo(i) = HandedTo(j)

\* Two files of one basename in different directories of a literal directory
\* pattern, both handed to the copy primitive with flat set.
C5_Witness ==
    /\ call.options.flat
    /\ call.options.rename = NoRename
    /\ \E i, j \in Indices :
          /\ Started(i) /\ Started(j)
          /\ FromLiteral(entries[i])
          /\ entries[i].pattern.isDirectory
          /\ Dirname(entries[i].path) # Dirname(entries[j].path)
          /\ HandedTo(i) = HandedTo(j)

\* ------------------------------------------------------------------ C6

InsideCwd(e) == IsProperPrefix(Cwd, e.path)

CwdRelativeDestination(e) == Join(DestinationRoot, Relative(Cwd, e.path))

\* C6: a literal file pattern whose file lies inside cwd, copied with the
\* default mapping to a relative destination, lands at
\* resolve(cwd, destination)/<path relative to cwd>; a string rename replaces
\* the last segment only.
C6_LiteralFileInsideCwd ==
    \A i \in Indices :
        (/\ Started(i)
         /\ FromLiteral(entries[i])
         /\ ~entries[i].pattern.isDirectory
         /\ InsideCwd(entries[i])
         /\ ~call.destination.abs
         /\ DefaultMapping)
        => HandedTo(i) =
              IF call.options.rename = NoRename
              THEN CwdRelativeDestination(entries[i])
              ELSE Join(Dirname(CwdRelativeDestination(entries[i])),
                        Rel(<<call.options.rename>>))

\* ------------------------------------------------------------------ C7

OutsideCwd(e) == StartsWithDotDot(Relative(Cwd, Target(e)))

\* The directory whose files a literal directory pattern yields.
DirectoryOf(e) ==
    IF e.pattern.symlinkTarget # Undef THEN e.pattern.symlinkTarget ELSE Target(e)

NestedUnderBasename(root, e) ==
    IF e.pattern.isDirectory
    THEN Join(Join(root, Rel(<<Basename(Target(e))>>)), Relative(DirectoryOf(e), e.path))
    ELSE Join(root, Rel(<<Basename(e.path)>>))

\* C7: a literal pattern whose target lies outside cwd, copied with the
\* default mapping and no rename, is nested under the target's own basename:
\* a file at <destination>/<basename>, a directory's file at
\* <destination>/<directory basename>/<path relative to the directory>.
C7_OutsideCwdNestedUnderBasename ==
    \A i \in Indices :
        (/\ Started(i)
         /\ FromLiteral(entries[i])
         /\ OutsideCwd(entries[i])
         /\ DefaultMapping
         /\ call.options.rename = NoRename)
        => HandedTo(i) = NestedUnderBasename(DestinationRoot, entries[i])

\* ------------------------------------------------------------------ C8

AbsoluteLiteralCase(i) ==
    /\ Started(i)
    /\ FromLiteral(entries[i])
    /\ call.destination.abs
    /\ DefaultMapping
    /\ call.options.rename = NoRename

CwdRelativeUsable(e) == ~StartsWithDotDot(Relative(Cwd, e.path))

C9_ReturnedInEntryOrder ==
    pc = "resolved" =>
        /\ Len(returned) = Len(entries)
        /\ \A i \in 1..Len(entries) :
              /\ returned[i] = renamedDestinationPath(entries[i], call)
              /\ returned[i] = destinationPathByEntry[i].destinationPath

\* An operation resolved after its jobs completed out of entry order, with
\* two different destinations.
C9_Witness ==
    /\ pc = "resolved"
    /\ \E a, b \in 1..Len(settled) : a < b /\ settled[a] > settled[b]
    /\ \E i, j \in 1..Len(returned) : returned[i] # returned[j]

\* ------------------------------------------------------------------ C10

SettledBefore(i) == {j \in Indices : j < i /\ job[j] \in {"done", "failed"}}

\* C10: never more than `concurrency` copy jobs are started and not settled,
\* and a job beyond the first `concurrency` is started only once enough
\* earlier jobs have settled to free a slot.
C10_BoundedParallelism ==
    /\ Cardinality(InFlight) <= call.concurrency
    /\ \A i \in Indices :
          Started(i) => Cardinality(SettledBefore(i)) + call.concurrency >= i

\* All slots taken, one of them by a job that had to wait for a slot.
C10_Witness ==
    /\ Cardinality(InFlight) = call.concurrency
    /\ \E i \in InFlight : i > call.concurrency

\* ------------------------------------------------------------------ C11

\* Job j fails in this step, the signal not aborted and the operation pending.
FirstFailure(j) ==
    /\ pc = "copying"
    /\ aborted = ""
    /\ job[j] = "copying"
    /\ job'[j] = "failed"

\* The error names job j's source relative to cwd and its destination, the
\* primitive's error being the cause.
NamesJob(e, j) ==
    /\ e.kind = "CopyFailure"
    /\ e.source = Relative(Cwd, entries[j].path)
    /\ e.destination = destinationPathByEntry[j].destinationPath
    /\ e.cause \in {"EACCES", "EEXIST"}

\* C11: the first copy failure that is not a cancellation rejects the
\* operation with a CpyError naming the failed job's relative source and its
\* destination, with the underlying error as cause; from then on the
\* operation stays rejected with that error, no job still queued is started,
\* and every file already copied stays at its destination.
C11_FailFast ==
    [][ /\ \A j \in Indices :
             FirstFailure(j) => pc' = "rejected" /\ NamesJob(error', j)
        /\ error.kind = "CopyFailure" =>
             /\ pc' = "rejected"
             /\ error' = error
             /\ \A j \in Indices : job[j] = "queued" => job'[j] = "queued"
             /\ \A j \in Indices :
                   job[j] = "done" => RealPath(HandedTo(j)) \in DOMAIN disk' ]_vars

\* A failure of the first job while the second is still queued.
C11_Witness ==
    /\ pc = "rejected"
    /\ error.kind = "CopyFailure"
    /\ error.index = 1
    /\ Len(job) = 2
    /\ job[2] = "queued"
    /\ error.source = Rel(<<"t", "b.txt">>)

\* ------------------------------------------------------------------ C12

\* completedFiles of the last progress event, none emitted counting as 0.
LastCompletedFiles(pg) == IF pg.count = 0 THEN 0 ELSE pg.last.completedFiles

\* C12: completedFiles never decreases from one progress event to the next,
\* and once an operation with at least one entry has resolved, its last
\* progress event has completedFiles = totalFiles and percent = 1.
C12_ProgressCompletes ==
    /\ [][LastCompletedFiles(progress') >= LastCompletedFiles(progress)]_vars
    /\ [](pc = "resolved" /\ entries # <<>> =>
            /\ progress.count > 0
            /\ progress.last.completedFiles = progress.last.totalFiles
            /\ IsOne(progress.last.percent))

\* ------------------------------------------------------------------ C13

\* Selection is over and has left nothing to copy.
NothingToCopy == pc \in {"copying", "resolved"} /\ entries = <<>>

CalledAborted == pc = "called" /\ call.options.signal /\ aborted \in AbortReasons

\* C14: a call with an already aborted signal rejects in its first step with
\* the signal's reason (the default AbortError or the value given to
\* abort()); that step yields no entry, starts no job, emits no progress
\* event and leaves the disk alone, and nothing happens after it.
C14_AbortedAtCall ==
    /\ [][CalledAborted =>
            /\ pc' = "rejected"
            /\ error' = AbortRejection(aborted)
            /\ error'.cause = aborted
            /\ entries' = <<>>
            /\ job' = <<>>
            /\ progress'.count = 0
            /\ disk' = disk]_vars
    /\ [][pc = "rejected" /\ error.kind = "Abort" /\ job = <<>> => UNCHANGED vars]_vars

\* A call naming a missing file and an unusable rename, rejected with the
\* reason given to abort().
C14_Witness ==
    /\ pc = "rejected"
    /\ error = AbortRejection("custom")
    /\ entries = <<>>
    /\ progress.count = 0
    /\ call.source = <<Pat(FALSE, <<"nope.txt">>, "")>>
    /\ call.options.rename = ".."

\* ------------------------------------------------------------------ C15

EngineRaisesOn(k) == globRaises(patternsOf(call)[k], matchOptions(call))

\* The k-th string of the source list is a literal pattern matching no file.
LiteralWithoutMatch(k) ==
    /\ ~call.source[k].negated
    /\ call.source[k].tail = ""
    /\ getMatches(patternsOf(call)[k], matchOptions(call)) = <<>>

HasNegation == \E k \in 1..Len(call.source) : call.source[k].negated

\* cpy() is being called, the signal not aborted.
CalledPending == pc = "called" /\ aborted = ""

\* The step rejects with the CpyError of a match error and starts nothing.
RejectsUnmatched ==
    /\ pc' = "rejected"
    /\ error'.kind \in {"SourceNotFound", "GlobFailure"}
    /\ entries' = <<>>
    /\ job' = <<>>
    /\ disk' = disk

\* A rejection for a match error is final and no job was started.
MatchErrorIsFinal ==
    [][pc = "rejected" /\ error.kind \in {"SourceNotFound", "GlobFailure"} =>
          job = <<>> /\ UNCHANGED vars]_vars

C17_DirectoryNeverMissing ==
    pc = "rejected" /\ error.kind = "SourceNotFound" =>
        ~IsDirectoryPath(Resolve(Cwd, error.path))

\* ------------------------------------------------------------------ C18

\* C18: with a concurrency value that is not a positive integer the
\* operation never copies and never resolves: no job is ever started, the
\* disk stays as it was, and the step that ends the selection of entries,
\* reaching the pMap call at the latest, rejects.
C18_InvalidConcurrency ==
    /\ [](call.concurrency \in InvalidConcurrency =>
            /\ pc \notin {"copying", "resolved"}
            /\ \A i \in Indices : job[i] = "queued"
            /\ disk = [f \in RealFileSet |-> f])
    /\ [][call.concurrency \in InvalidConcurrency /\ pc = "matched" /\ pc' # pc =>
            pc' = "rejected"]_vars

\* A call with concurrency -2 whose entries were selected, rejected by the
\* validation of the value with every job still queued.
C18_Witness ==
    /\ call.concurrency = -2
    /\ pc = "rejected"
    /\ error.kind = "TypeError"
    /\ error.cause = "concurrency"
    /\ entries # <<>>
    /\ \A i \in Indices : job[i] = "queued"

\* ------------------------------------------------------------------ C19

\* The rename option is a string that assertRenameBasename refuses.
InvalidRename == call.options.rename # NoRename /\ ~assertBasename(call.options.rename)

\* C19: a call whose rename string holds a path separator, or is empty, "."
\* or "..", fails with a TypeError in its first step, before the patterns
\* are matched and before any copy; it never gets as far as matching,
\* copying or resolving.
C19_RenameValidatedFirst ==
    /\ [][CalledPending /\ InvalidRename =>
            pc' = "rejected" /\ error'.kind = "TypeError"]_vars
    /\ [](InvalidRename /\ aborted = "" => pc \in {"called", "rejected"})

\* ------------------------------------------------------------------ C20

\* File f is matched by a "!" string of the source list.
NegationMatches(f) ==
    \E k \in 1..Len(call.source) :
        LET g == call.source[k] IN
        /\ g.negated
        /\ GlobMatches(f, Resolve(Cwd, P(g.abs, g.segs)), g.tail, TRUE)

\* File f is matched by a string of the source list without "!", the ignore
\* list left aside.
SourceMatches(f) ==
    \E k \in 1..Len(call.source) :
        /\ ~call.source[k].negated
        /\ \E m \in 1..Len(getMatches(patternsOf(call)[k], call.options)) :
              getMatches(patternsOf(call)[k], call.options)[m] = f

EntryPaths == {entries[i].path : i \in 1..Len(entries)}

\* C20: no entry comes from a "!" pattern and no entry is a file that a "!"
\* pattern matches, so no such file is ever handed to a copy job; the
\* matched entries are the files of the other patterns except those a "!"
\* pattern matches.
C20_NegationsOnlyIgnore ==
    /\ \A i \in 1..Len(entries) :
          /\ ~entries[i].pattern.originalPath.negated
          /\ ~NegationMatches(entries[i].path)
    /\ pc = "matched" =>
          EntryPaths = {f \in FileSet : SourceMatches(f) /\ ~NegationMatches(f)}

\* Everything under cwd but the files of t/ was copied.
C20_Witness ==
    /\ call.source = <<Pat(FALSE, <<>>, "**"), Negation(Pat(FALSE, <<"t">>, "*"))>>
    /\ pc = "resolved"
    /\ returned # <<>>
    /\ Abs(<<"r", "s", "a.txt">>) \in EntryPaths
    /\ Abs(<<"r", "s", "t", "b.txt">>) \notin EntryPaths

\* ------------------------------------------------------------------ C21

\* The destination a finished rename callback leaves behind.
RenamedPath == destinationFile.path

\* C21: whatever a two-argument rename callback assigned to destination.path,
\* .name, .nameWithoutExtension and .extension, once it has returned without
\* a TypeError the destination is a file directly inside the directory it
\* had before the callback, and its basename holds no path separator and is
\* not empty, '.' or '..'.
C21_RenameStaysInDirectory ==
    pc = "renamed" =>
        /\ Len(RenamedPath) = Len(Directory) + 1
        /\ SubSeq(RenamedPath, 1, Len(Directory)) = Directory
        /\ LET basename == RenamedPath[Len(RenamedPath)]
           IN /\ \A i \in 1..Len(basename) : basename[i] \notin {"/", "\\"}
              /\ basename \notin {<<>>, <<".">>, <<".", ".">>}

\* ------------------------------------------------------------------ C22

\* update is in force: update: true, ignoreExisting not true (overwrite is
\* at its default).
UpdateInForce == call.options.update /\ ~call.options.ignoreExisting

\* The entries the patterns matched, before any selection.
MatchedEntries ==
    LET matched == getEntries(patternsOf(call), matchOptions(call))
    IN {matched[k] : k \in 1..Len(matched)}

\* The resolved destination of a matched entry.
DestinationOf(e) == resolveDestinationPaths(e, call).resolvedDestinationPath

\* p is a regular file when the operation starts.
RegularFileAtCall(p) == RealPath(p) \in RealFileSet /\ ~IsDirectoryPath(p)

\* The source is newer than the file at p, or as old and of another size.
NewerOrResized(e, p) ==
    \/ Mtime(e.path) > Mtime(p)
    \/ Mtime(e.path) = Mtime(p) /\ SizeOf(e.path) # SizeOf(p)

\* A job was started for entry i only if its destination was no regular file
\* or the source is newer or resized.
StartedOnlyIfNewer ==
    UpdateInForce =>
        \A i \in Indices :
            Started(i) /\ RegularFileAtCall(HandedTo(i)) =>
                NewerOrResized(entries[i], HandedTo(i))

\* A matched entry that is not newer than its existing destination.
Outdated(e) ==
    /\ RegularFileAtCall(DestinationOf(e))
    /\ ~NewerOrResized(e, DestinationOf(e))

Untouched(p) == disk[RealPath(p)] = RealPath(p)

Returned == {returned[k] : k \in 1..Len(returned)}

ReturnedResolved == {Resolve(Cwd, p) : p \in Returned}

\* C22 as stated: with update in force a job is started for an entry whose
\* destination is a regular file only if the source is newer, or as old and
\* of another size; for every other such entry the destination is left
\* untouched and is absent from the returned list.
C22_UpdateOnlyNewer ==
    /\ StartedOnlyIfNewer
    /\ pc = "resolved" /\ UpdateInForce =>
          \A e \in MatchedEntries :
              Outdated(e) =>
                  /\ Untouched(DestinationOf(e))
                  /\ DestinationOf(e) \notin ReturnedResolved

\* Some entry handed to the mapper has the destination p.
CopiedTo(p) == \E i \in Indices : Started(i) /\ HandedTo(i) = p

\* C22, amended: with update in force a job is started for an entry whose
\* destination is a regular file only if the source is newer, or as old and
\* of another size; for every other such entry no job is started, and its
\* destination is left untouched and absent from the returned list unless
\* another entry of the operation has the same destination and is copied.
C22_UpdateOnlyNewerPerDestination ==
    /\ StartedOnlyIfNewer
    /\ UpdateInForce /\ pc \in {"copying", "resolved"} /\ job # <<>> =>
          \A e \in MatchedEntries :
              Outdated(e) => \A i \in Indices : entries[i] # e
    /\ pc = "resolved" /\ UpdateInForce =>
          \A e \in MatchedEntries :
              Outdated(e) /\ ~CopiedTo(DestinationOf(e)) =>
                  /\ Untouched(DestinationOf(e))
                  /\ DestinationOf(e) \notin ReturnedResolved

\* An operation under update has resolved after skipping an entry that is as
\* old and as large as its destination, which nothing else was copied to, and
\* copying another entry.
C22_Witness ==
    /\ pc = "resolved"
    /\ UpdateInForce
    /\ \E e \in MatchedEntries :
          /\ Outdated(e)
          /\ ~CopiedTo(DestinationOf(e))
          /\ Mtime(e.path) = Mtime(DestinationOf(e))
    /\ \E i \in Indices : job[i] = "done"

\* ------------------------------------------------------------------ C23

IgnoreExistingGiven == call.options.ignoreExisting

\* Something exists at p when the operation starts.
ExistsAtCall(p) == RealPath(p) \in RealFileSet \/ IsDirectoryPath(p)

\* The mapper of entry i ended without a value: the copy was skipped.
SkippedByMapper(i) == job[i] = "done" /\ results[i] = Undef

FromGlob(e) == isDynamicPattern(e.pattern.originalPath)

\* The file of entry e written as a literal path relative to cwd.
LiteralPathOf(e) == Pat(FALSE, Relative(Cwd, e.path).segs, "")

\* The entry the file of e makes when it is passed as that literal path.
AsLiteral(e) == Entry(e.path, GlobPattern(LiteralPathOf(e), Cwd))

\* The resolved destination of an entry under the call's destination and options.
MappedTo(e) == resolveCopyPath(renamedDestinationPath(e, call), Cwd)

\* C24: with base: 'cwd', the resolved destination a file matched by a glob
\* is copied to equals the resolved destination of the same file passed as a
\* literal path, under the same cwd, destination and options.
C24_GlobLikeExplicitPath ==
    call.options.base = "cwd" =>
        \A i \in Indices :
            Started(i) /\ FromGlob(entries[i]) =>
                HandedTo(i) = MappedTo(AsLiteral(entries[i]))

\* ------------------------------------------------------------------ C25

\* The glob parent of entry e's pattern.
GlobParent(e) == normalizedPath(e.pattern, Cwd)

\* D/<relative path>, resolved
Under(relative) == Resolve(Cwd, Join(call.destination, relative))

\* The candidates of entry e in their order.
Candidates(e) ==
    <<Under(Relative(GlobParent(e), e.path))>>
    \o (IF InsideCwd(e) THEN <<Under(Relative(Cwd, e.path))>> ELSE <<>>)
    \o <<Under(Rel(<<Basename(e.path)>>))>>

\* The first candidate that is not the source itself, Undef if all are.
FirstCandidate(e) ==
    LET candidates == Candidates(e)
        free == {k \in 1..Len(candidates) : candidates[k] # Resolve(Cwd, e.path)}
    IN IF free = {} THEN Undef
       ELSE candidates[CHOOSE k \in free : \A m \in free : k <= m]

GlobRegime == ~call.options.flat /\ call.options.base = "" /\ call.options.rename = NoRename

\* C25: a non-flat glob entry with no base option (and no rename) is copied
\* to the first of D/<path relative to the glob parent>, D/<path relative to
\* cwd> (file inside cwd), D/<basename> that is not the source file itself,
\* and the operation refuses the self-copy only if D/<basename> is the source.
C25_FirstCandidateNotSelf ==
    GlobRegime =>
        /\ \A i \in Indices :
              Started(i) /\ FromGlob(entries[i]) =>
                  HandedTo(i) = FirstCandidate(entries[i])
        /\ pc = "rejected" /\ error.kind = "SelfCopy" /\ isDynamicPattern(call.source[1]) =>
              Under(Rel(<<Basename(error.path)>>)) = Resolve(Cwd, error.path)

\* ------------------------------------------------------------------ C26

\* In this step job i's copy primitive delivers its first event with
\* percent = 1: the final event of a finished copy, or the event that stands
\* for a skipped copy.
FirstFullReport(i) ==
    /\ job[i] = "copying"
    /\ job'[i] # "copying"
    /\ \/ job'[i] = "done"
       \/ reported'[i] = SizeOf(entries[i].path)

\* C26: completedFiles goes up by one in the step in which a job's first
\* event with percent = 1 is delivered and in no other step, whatever events
\* the job delivered before, so it never exceeds totalFiles.
C26_CountedOncePerJob ==
    /\ [][\A i \in Indices :
            FirstFullReport(i) => progress'.completedFiles = progress.completedFiles + 1]_vars
    /\ [][(\A i \in Indices : ~FirstFullReport(i)) =>
            progress'.completedFiles = progress.completedFiles]_vars
    /\ [](progress.completedFiles <= Len(entries))

\* ------------------------------------------------------------------ C27

RECURSIVE SumOver(_, _)
SumOver(f, k) == IF k = 0 THEN 0 ELSE f[k] + SumOver(f, k - 1)

\* The sum over all jobs of the writtenBytes reported last.
ReportedSum == SumOver(reported, Len(reported))

\* Bytes written by the jobs that copied their file.
WrittenByJobs ==
    SumOver([i \in Indices |-> IF results[i] # Undef THEN SizeOf(entries[i].path) ELSE 0],
            Len(job))

\* C27: completedSize, and the completedSize of the progress event sent last,
\* equal the sum over all jobs of the writtenBytes the job reported last; once
\* the operation has resolved, completedSize is the number of bytes written
\* by all jobs.
C27_CompletedSizeIsSum ==
    /\ progress.completedSize = ReportedSum
    /\ progress.count > 0 /\ job # <<>> => progress.last.completedSize = ReportedSum
    /\ pc = "resolved" => progress.completedSize = WrittenByJobs

\* ------------------------------------------------------------------ C28

\* C28: no two copy jobs in flight at the same time have the same resolved
\* destination path.
C28_DistinctDestinationsInFlight ==
    \A i, j \in InFlight : i # j => HandedTo(i) # HandedTo(j)

\* ------------------------------------------------------------------ C29

\* The resolved path entry i was copied to.
CopiedToPath(i) == resolveCopyPath(results[i], Cwd)

\* C29: the rename callback is invoked at most once per entry, whoever asks
\* for the entry's destination (the filter context, the ignoreExisting or
\* update check, the mapper), and the destinationPath the filter read is the
\* resolved path the entry is copied to.
C29_RenamedOncePerEntry ==
    /\ \A i \in 1..Len(renameCalls) : renameCalls[i] <= 1
    /\ \A i \in 1..Len(filterSaw) :
          filterSaw[i] # Undef /\ job[i] = "done" =>
              CopiedToPath(i) = filterSaw[i]

\* An operation has resolved after the filter, the ignoreExisting or update
\* check and the mapper each asked for the destination of a copied entry.
C29_Witness ==
    /\ pc = "resolved"
    /\ call.options.filter = ReadsDestination
    /\ call.options.ignoreExisting \/ call.options.update
    /\ \E i \in 1..Len(job) :
          /\ job[i] = "done"
          /\ renameCalls[i] = 1
          /\ filterSaw[i] # Undef

\* ------------------------------------------------------------------ C30

DryRun == call.options.dryRun

\* The paths a real run hands to the copy primitive, in entry order.
CopyPaths == [i \in 1..Len(entries) |-> renamedDestinationPath(entries[i], call)]

\* The same paths resolved against cwd.
ResolvedCopyPaths == [i \in 1..Len(entries) |-> Resolve(Cwd, CopyPaths[i])]

\* A dry run never calls the copy primitive; a real run that resolves
\* without skipping a file returns the paths it copied to.
DryRunCopiesNothing ==
    /\ DryRun =>
          /\ disk = [f \in RealFileSet |-> f]
          /\ \A i \in Indices : job[i] # "copying"
    /\ ~DryRun /\ pc = "resolved" /\ (\A i \in Indices : results[i] # Undef) =>
          returned = CopyPaths

====
